---- MODULE Spec2Model ----
(***************************************************************************)
(* A model of the three route handlers of the drama-dl frontend:           *)
(*   src/app/api/search/route.ts    GET /api/search   (Resolver)           *)
(*   src/app/api/video/route.ts     GET /api/video    (Extractor)          *)
(*   src/app/api/download/route.ts  GET /api/download (Streamer)           *)
(*                                                                         *)
(* Text is modelled in two ways.  A text that the code only compares,      *)
(* measures or concatenates (a title, a quality label) is a TLA+ string.   *)
(* A text that the code pattern-matches (a URL, a result page, a manifest) *)
(* is a sequence of atoms: "/" and every identifier character are atoms of *)
(* their own, fixed words ("https:", "www.", "dailymotion.com", "video")   *)
(* are one atom each.  An optional value (T | null) is a sequence of       *)
(* length 0 or 1.                                                          *)
(***************************************************************************)
EXTENDS Integers, Sequences, FiniteSets, TLC

VARIABLES
    \* ---- GET /api/search, one request ----
    s_pc,         \* position in the handler: "start", "fallback", "done"
    s_q,          \* the q query parameter (None when missing)
    s_upPrimary,  \* the answer api.dailymotion.com gave to the primary strategy
    s_upFallback, \* the answer google.com gave to the fallback strategy
    s_calls,      \* the strategies invoked so far, in order
    s_status,     \* status of the response (0 while none is sent)
    s_body,       \* JSON array of the response (<<>> for an error body)
    \* ---- parseM3u8Variants, both copies, on one manifest ----
    p_m3u8Url,    \* URL the manifest was fetched from
    p_text,       \* the manifest text, a sequence of lines
    p_video,      \* result of the copy in video/route.ts (None until it ran)
    p_download,   \* result of the copy in download/route.ts (None until it ran)
    \* ---- GET /api/video, one request ----
    v_pc,         \* position in the handler: "start", "manifest", "done"
    v_url,        \* the url query parameter (None when missing)
    v_videoId,    \* extractVideoId(url)
    v_upMeta,     \* the answer the platform gave to the metadata fetch
    v_upManifest, \* the answer the CDN gave to the manifest fetch
    v_fetches,    \* outbound fetches issued so far, in order
    v_variants,   \* variants parsed from the manifest
    v_branches,   \* branches of the handler that ran: "manifest", "formats", "last"
    v_built,      \* the local streams right before the final sort (line 173)
    v_status,     \* status of the response (0 while none is sent)
    v_streams,    \* streams of the 200 response
    \* ---- a Rendition handed from the Extractor to the Streamer ----
    r_pc,         \* "start", "extracted", "requested", "done"
    r_lines,      \* the lines of the master manifest after its #EXTM3U line
    r_streams,    \* the streams the Extractor builds from the manifest
    r_pick,       \* position in r_streams of the Rendition that is requested
    r_link,       \* the text of its /api/download link
    r_id,         \* the id parameter the Streamer reads from the link
    r_quality,    \* the qualityParam the Streamer reads from the link
    r_found,      \* position of the variant find() returns (0: undefined)
    r_variantUrl, \* the variant URL Strategy A goes on with
    \* ---- GET /api/download, one request ----
    d_pc,         \* "start"; the fetchOk call in progress: "meta", "master",
                  \* "variant", "direct"; "known"; in the segment loop: "answer"
                  \* (fetch awaited), "read" (body read); "done"; "failed"
                  \* (502); "crashed" (exception out of GET); "aborted";
                  \* "hung" (waiting for an upstream that never answers)
    d_id, d_u, d_t, d_q, d_quality,   \* the query parameters (None when missing)
    d_title,      \* the local title
    d_meta,       \* the metadata body Strategy A received
    d_try,        \* failed attempts of the fetchOk call in progress
    d_waits,      \* the waits of that call so far, in ms
    d_answer,     \* the answer to the latest attempt
    d_calls,      \* the fetchOk calls that returned, in order, with their result
    d_tried,      \* the strategies entered so far, in order
    d_variantUrl, \* the variant URL fetched by Strategy A step 4 or by Strategy B
    d_segments,   \* the segment list
    d_status,     \* status of the response (0 while none is sent)
    d_body,       \* the fields of the JSON error body
    d_filename,   \* the filename of the Content-Disposition header
    d_type,       \* the Content-Type header ("" while no response is built)
    d_i,          \* the loop variable of start(), 1-based
    d_inflight,   \* segments whose fetch is issued and whose response is open
    d_read,       \* chunks read from the body of segment d_i
    d_res,        \* how the loop left each segment
    d_out,        \* the chunks enqueued to the output stream, in order
    d_started,    \* the segments whose fetch was issued, in order
    d_closed,     \* controller.close() calls that closed the stream
    d_cancel,     \* "no"; after the client went away "closed" or "ignored"
    \* ---- the page (src/app/page.tsx), one visit ----
    g_submitted,  \* the texts submitted in the search form, in order
    g_clicks,     \* clicks on a result card or on the close button so far
    g_results,    \* state results: the candidates shown
    g_loading,    \* state loading
    g_loadingSets,\* calls of setLoading(true) so far
    g_error,      \* state error
    g_selected,   \* state selectedVideo (None for null)
    g_videoInfo,  \* state videoInfo (None for null)
    g_loadingVideo, \* state loadingVideo
    g_pending,    \* the requests of the page that are not answered yet
    g_sent,       \* the requests the page has issued, in order
    \* ---- two invocations of the route handlers at the same time ----
    c_req,        \* per invocation: the endpoint and its query parameters
    c_up,         \* per invocation: what the upstream answers to its fetches
    c_pc,         \* per invocation: "idle", "start", "wait" (at a fetch), "done"
    c_got,        \* per invocation: the answers its fetches have returned
    c_resp,       \* per invocation: its response (None before it)
    c_overlap,    \* both invocations have been waiting at a fetch at one time
    \* ---- one segment playlist read by both strategies ----
    l_pc,         \* "idle", "read"
    l_variantUrl, \* parameter variantUrl of both strategies
    l_text,       \* the playlist text both have read from it
    l_viaA,       \* what resolveVariantAndSegments derives (None before it)
    l_viaB        \* what streamFromVariantUrl derives (None before it)

searchVars == <<s_pc, s_q, s_upPrimary, s_upFallback, s_calls, s_status, s_body>>
parseVars == <<p_m3u8Url, p_text, p_video, p_download>>
videoVars == <<v_pc, v_url, v_videoId, v_upMeta, v_upManifest, v_fetches, v_variants,
               v_branches, v_built, v_status, v_streams>>

refVars == <<r_pc, r_lines, r_streams, r_pick, r_link, r_id, r_quality, r_found,
             r_variantUrl>>
dlReq == <<d_id, d_u, d_t, d_q, d_quality>>
dlRes == <<d_pc, d_title, d_meta, d_try, d_waits, d_answer, d_calls, d_tried,
           d_variantUrl, d_segments>>
dlResp == <<d_status, d_body, d_filename, d_type>>
dlStream == <<d_i, d_inflight, d_read, d_res, d_out, d_started, d_closed, d_cancel>>
dlVars == <<dlReq, dlRes, dlResp, dlStream>>

pageVars == <<g_submitted, g_clicks, g_results, g_loading, g_loadingSets, g_error,
              g_selected, g_videoInfo, g_loadingVideo, g_pending, g_sent>>

ccVars == <<c_req, c_up, c_pc, c_got, c_resp, c_overlap>>

segVars == <<l_pc, l_variantUrl, l_text, l_viaA, l_viaB>>

vars == <<searchVars, parseVars, videoVars, refVars, dlVars, pageVars, ccVars, segVars>>

-----------------------------------------------------------------------------
(* Optional values and small helpers *)

None == <<>>
Some(x) == <<x>>
IsSome(o) == o # <<>>
Val(o) == o[1]

Max2(a, b) == IF a >= b THEN a ELSE b

\* how many times x occurs in s
Count(s, x) == Cardinality({i \in 1..Len(s) : s[i] = x})

\* all sequences over S of length 0..n
SeqUpTo(S, n) == UNION {[1..k -> S] : k \in 0..n}

\* String.prototype.trim on a sequence of atoms: drop leading and trailing blanks
RECURSIVE TrimLeft(_)
TrimLeft(s) == IF s # <<>> /\ Head(s) = " " THEN TrimLeft(Tail(s)) ELSE s
RECURSIVE TrimRight(_)
TrimRight(s) ==
    IF s # <<>> /\ s[Len(s)] = " " THEN TrimRight(SubSeq(s, 1, Len(s) - 1)) ELSE s
Trim(s) == TrimRight(TrimLeft(s))

-----------------------------------------------------------------------------
(* URLs *)

Alnum == {"x", "y", "2", "K"}            \* atoms matching [a-zA-Z0-9]

\* `https://www.dailymotion.com/video/${id}`
WatchUrl(id) ==
    <<"https:", "/", "/", "www.", "dailymotion.com", "/", "video", "/">> \o id

\* s.lastIndexOf(a), 1-based; 0 when a does not occur
LastIndexOf(s, a) ==
    LET at == {i \in 1..Len(s) : s[i] = a}
    IN  IF at = {} THEN 0 ELSE CHOOSE i \in at : \A j \in at : j <= i

\* url.substring(0, url.lastIndexOf("/"))
BaseUrlOf(url) == SubSeq(url, 1, LastIndexOf(url, "/") - 1)

\* the longest run of [a-zA-Z0-9] atoms of s that starts at position i
RECURSIVE AlnumRunEnd(_, _)
AlnumRunEnd(s, i) ==
    IF i <= Len(s) /\ s[i] \in Alnum THEN AlnumRunEnd(s, i + 1) ELSE i - 1

\* s carries /dailymotion\.com\/video\/([a-zA-Z0-9]+)/ at position i
WatchPatternAt(s, i) ==
    /\ i + 4 <= Len(s)
    /\ s[i] = "dailymotion.com"
    /\ s[i + 1] = "/"
    /\ s[i + 2] = "video"
    /\ s[i + 3] = "/"
    /\ s[i + 4] \in Alnum

-----------------------------------------------------------------------------
(* GET /api/search *)

MaxResults == 12
\* dailymotionApiSearch(query, maxResults = 12): the limit parameter of the API call
PrimaryLimit == 12
SnippetRadius == 500

\* ---- primary strategy: the platform's search endpoint ----

PadStart2(s) == IF Len(s) < 2 THEN "0" \o s ELSE s

\* duration seconds as "M:SS" (null when the duration is 0 or missing)
DurationLabel(durSec) ==
    IF durSec = 0 THEN None
    ELSE Some(ToString(durSec \div 60) \o ":" \o PadStart2(ToString(durSec % 60)))

\* one item of data.list as a SearchResult; a missing field is "" (or <<>>, or 0)
MapItem(item) ==
    [title     |-> item.title,
     url       |-> IF item.url # <<>> THEN item.url ELSE WatchUrl(item.id),
     thumbnail |-> IF item.thumbnail # "" THEN Some(item.thumbnail) ELSE None,
     duration  |-> DurationLabel(item.duration),
     channel   |-> IF item.owner # "" THEN Some(item.owner) ELSE None]

\* the answer of api.dailymotion.com to one search:
\*   "neterr"  fetch rejects            "nonok"   status outside 200..299
\*   "badjson" 200, body is not JSON    "nolist"  200, JSON without a list field
\*   "list"    200, JSON with data.list = list
\* The result is [threw, list]: the exception, or the value returned.
dailymotionApiSearch(ans) ==
    IF ans.kind \in {"neterr", "nonok", "badjson"}
    THEN [threw |-> TRUE, list |-> <<>>]
    ELSE [threw |-> FALSE,
          list  |-> [i \in 1..Len(ans.list) |-> MapItem(ans.list[i])]]

\* ---- fallback strategy: scraping a web-search result page ----

\* decodeURIComponent: a percent escape becomes the character it encodes
DecodeAtom(a) == IF a = "%4B" THEN "K" ELSE IF a = "%26" THEN "&" ELSE a
DecodeURIComponent(s) == [i \in 1..Len(s) |-> DecodeAtom(s[i])]

\* (mutant) the host of the target is not compared with dailymotion.com
LinkCapture_AnyHost(el) ==
    LET b == el.body
    IN  IF /\ el.kind = "a"
           /\ el.redir
           /\ Len(b) >= 8
           /\ b[1] \in {"http:", "https:"}
           /\ b[6] = "video"
           /\ b[8] \in Alnum
        THEN Some(SubSeq(b, 1, AlnumRunEnd(b, 8)))
        ELSE None

\* One match of linkRegex in an anchor of the page: the anchor's target must be
\* written /url?q=, then http(s)://, an optional www., dailymotion.com/video/
\* and one or more [a-zA-Z0-9]; group 1 runs from the scheme to the end of
\* that run.  None when the regex does not match here.
LinkCapture(el) ==
    LET b == el.body
        k == IF Len(b) >= 4 /\ b[4] = "www." THEN 5 ELSE 4
    IN  IF /\ el.kind = "a"
           /\ el.redir
           /\ Len(b) >= 3
           /\ b[1] \in {"http:", "https:"}
           /\ b[2] = "/"
           /\ b[3] = "/"
           /\ WatchPatternAt(b, k)
        THEN Some(SubSeq(b, 1, AlnumRunEnd(b, k + 4)))
        ELSE None

\* offset of element i in the page text
RECURSIVE ElemStart(_, _)
ElemStart(html, i) == IF i <= 1 THEN 0 ELSE ElemStart(html, i - 1) + html[i - 1].w

\* snippet.match(/<h3[^>]*>(.*?)<\/h3>/) on
\* html.substring(Math.max(0, idx - 500), idx + 500): the first heading that
\* lies wholly inside the window around the match at element i
SnippetH3(html, i) ==
    LET idx == ElemStart(html, i)
        lo  == Max2(0, idx - SnippetRadius)
        hi  == idx + SnippetRadius
        in  == {j \in 1..Len(html) :
                    /\ html[j].kind = "h3"
                    /\ ElemStart(html, j) >= lo
                    /\ ElemStart(html, j) + html[j].w <= hi}
    IN  IF in = {} THEN None
        ELSE Some(html[CHOOSE j \in in : \A j2 \in in : j <= j2].body)

\* h3Match[1].replace(/<[^>]+>/g, "").trim()
IsTag(a) == a \in {"<b>", "</b>"}
RECURSIVE StripTags(_)
StripTags(s) ==
    IF s = <<>> THEN <<>>
    ELSE (IF IsTag(Head(s)) THEN <<>> ELSE <<Head(s)>>) \o StripTags(Tail(s))

TitleFor(html, i, dmUrl) ==
    LET h3 == SnippetH3(html, i)
    IN  IF IsSome(h3) THEN Trim(StripTags(Val(h3))) ELSE dmUrl

\* (mutant) results.length > maxResults: the loop stops one candidate late
RECURSIVE ScrapeFrom_OneMore(_, _, _, _, _)
ScrapeFrom_OneMore(html, i, seen, results, maxResults) ==
    IF i > Len(html) THEN results
    ELSE
      LET cap == LinkCapture(html[i])
      IN  IF cap = None THEN ScrapeFrom_OneMore(html, i + 1, seen, results, maxResults)
          ELSE
            LET dmUrl == DecodeURIComponent(Val(cap))
                title == TitleFor(html, i, dmUrl)
                more  == Append(results,
                                [title |-> title, url |-> dmUrl, thumbnail |-> None,
                                 duration |-> None, channel |-> None])
            IN  IF dmUrl \in seen
                THEN ScrapeFrom_OneMore(html, i + 1, seen, results, maxResults)
                ELSE IF Len(title) < 3
                THEN ScrapeFrom_OneMore(html, i + 1, seen \cup {dmUrl}, results,
                                        maxResults)
                ELSE IF Len(more) > maxResults THEN more
                ELSE ScrapeFrom_OneMore(html, i + 1, seen \cup {dmUrl}, more,
                                        maxResults)

\* the while loop over linkRegex.exec(html), from element i on
RECURSIVE ScrapeFrom(_, _, _, _, _)
ScrapeFrom(html, i, seen, results, maxResults) ==
    IF i > Len(html) THEN results
    ELSE
      LET cap == LinkCapture(html[i])
      IN  IF cap = None THEN ScrapeFrom(html, i + 1, seen, results, maxResults)
          ELSE
            LET dmUrl == DecodeURIComponent(Val(cap))
                title == TitleFor(html, i, dmUrl)
                more  == Append(results,
                                [title |-> title, url |-> dmUrl, thumbnail |-> None,
                                 duration |-> None, channel |-> None])
            IN  IF dmUrl \in seen
                THEN ScrapeFrom(html, i + 1, seen, results, maxResults)
                ELSE IF Len(title) < 3
                THEN ScrapeFrom(html, i + 1, seen \cup {dmUrl}, results, maxResults)
                ELSE IF Len(more) >= maxResults THEN more
                ELSE ScrapeFrom(html, i + 1, seen \cup {dmUrl}, more, maxResults)

\* the answer of google.com: "neterr", "nonok", or "page" with the page text
googleSearchDailymotion(ans) ==
    IF ans.kind \in {"neterr", "nonok"}
    THEN [threw |-> TRUE, list |-> <<>>]
    ELSE [threw |-> FALSE, list |-> ScrapeFrom(ans.html, 1, {}, <<>>, MaxResults)]

\* ---- the inputs of one search request ----

MaxList == 2      \* items in data.list
MaxHtml == 3      \* elements of a result page

QParams ==
    {None, Some(<<>>), Some(<<" ">>), Some(<<"k">>), Some(<<" ", "k", " ">>)}

Items ==
    {[id |-> <<"x", "2">>, title |-> "Vincenzo Ep 1", url |-> <<>>,
      thumbnail |-> "t1.jpg", duration |-> 3725, owner |-> "tvN"],
     [id |-> <<"y">>, title |-> "", url |-> WatchUrl(<<"y">>),
      thumbnail |-> "", duration |-> 0, owner |-> ""],
     [id |-> <<"K", "2">>, title |-> "Ep 2", url |-> <<>>,
      thumbnail |-> "", duration |-> 605, owner |-> "tvN"]}

PrimaryAnswers ==
    {[kind |-> k, list |-> <<>>] : k \in {"neterr", "nonok", "badjson", "nolist"}}
    \cup {[kind |-> "list", list |-> l] : l \in SeqUpTo(Items, MaxList)}

LinkBodies ==
    {WatchUrl(<<"x", "2">>) \o <<"&", "sa">>,
     <<"http:", "/", "/", "dailymotion.com", "/", "video", "/", "x", "2">>,
     WatchUrl(<<"x", "2">>) \o <<"%4B">>,
     WatchUrl(<<"y">>),
     <<"https:", "/", "/", "www.", "dailymotion.com", "/", "playlist", "/", "x">>,
     <<"https:", "/", "/", "www.", "dailymotion.com", "/", "video", "/">>,
     <<"https:", "/", "/", "evil.com", "/", "video", "/", "x", "2">>}

H3Bodies ==
    {<<"<b>", "E", "p", " ", "1", "</b>">>,
     <<" ", "<b>", "E", "</b>", "p", " ">>}

PageElems ==
    {[kind |-> "a", redir |-> TRUE, body |-> b, w |-> 100] : b \in LinkBodies}
    \cup {[kind |-> "a", redir |-> FALSE, body |-> WatchUrl(<<"K">>), w |-> 100]}
    \cup {[kind |-> "h3", redir |-> FALSE, body |-> b, w |-> 60] : b \in H3Bodies}
    \cup {[kind |-> "text", redir |-> FALSE, body |-> <<>>, w |-> 450]}

MaxLinks == 18    \* links of a long result page

\* the identifier of the k-th link of a long page
LongId(k) == [j \in 1..k |-> "x"]

\* a result page with n links to n different videos
LongPage(n) ==
    [k \in 1..n |->
        [kind |-> "a", redir |-> TRUE, body |-> WatchUrl(LongId(k)), w |-> 100]]

\* long pages, with or without a heading of two characters ahead of the links
LongPages ==
    {pre \o LongPage(n) :
        pre \in {<<>>, <<[kind |-> "h3", redir |-> FALSE,
                          body |-> <<" ", "<b>", "E", "</b>", "p", " ">>, w |-> 60]>>},
        n \in MaxResults..MaxLinks}

FallbackAnswers ==
    {[kind |-> k, html |-> <<>>] : k \in {"neterr", "nonok"}}
    \cup {[kind |-> "page", html |-> h] : h \in SeqUpTo(PageElems, MaxHtml)}
    \cup {[kind |-> "page", html |-> h] : h \in LongPages}

NoPrimaryAnswer == [kind |-> "none", list |-> <<>>]
NoFallbackAnswer == [kind |-> "none", html |-> <<>>]

\* ---- the handler ----

SearchInit ==
    /\ s_pc = "start"
    /\ s_q \in QParams
    /\ s_upPrimary = NoPrimaryAnswer
    /\ s_upFallback = NoFallbackAnswer
    /\ s_calls = <<>>
    /\ s_status = 0
    /\ s_body = <<>>

\* no search request is in progress
SearchIdle ==
    /\ s_pc = "idle"
    /\ s_q = None
    /\ s_upPrimary = NoPrimaryAnswer
    /\ s_upFallback = NoFallbackAnswer
    /\ s_calls = <<>>
    /\ s_status = 0
    /\ s_body = <<>>

\* q = searchParams.get("q")?.trim(); if (!q)
QBlank(q) == IF q = None THEN TRUE ELSE Trim(Val(q)) = <<>>

\* lines 109-115: missing or blank q
SearchReject ==
    /\ s_pc = "start"
    /\ QBlank(s_q)
    /\ s_status' = 400
    /\ s_body' = <<>>
    /\ s_pc' = "done"
    /\ UNCHANGED <<s_q, s_upPrimary, s_upFallback, s_calls>>
    /\ UNCHANGED <<parseVars, videoVars, refVars, dlVars, pageVars, ccVars, segVars>>

\* (mutant) results.length > 1 in place of results.length > 0
SearchPrimary_OffByOne ==
    /\ s_pc = "start"
    /\ ~QBlank(s_q)
    /\ \E ans \in PrimaryAnswers :
         LET r == dailymotionApiSearch(ans)
         IN  /\ s_upPrimary' = ans
             /\ s_calls' = Append(s_calls, "primary")
             /\ IF ~r.threw /\ Len(r.list) > 1
                THEN /\ s_status' = 200
                     /\ s_body' = r.list
                     /\ s_pc' = "done"
                ELSE /\ s_pc' = "fallback"
                     /\ UNCHANGED <<s_status, s_body>>
    /\ UNCHANGED <<s_q, s_upFallback>>
    /\ UNCHANGED <<parseVars, videoVars, refVars, dlVars, pageVars, ccVars, segVars>>

\* (mutant) an empty list of the primary strategy is returned as the response
SearchPrimary_ReturnsEmpty ==
    /\ s_pc = "start"
    /\ ~QBlank(s_q)
    /\ \E ans \in PrimaryAnswers :
         LET r == dailymotionApiSearch(ans)
         IN  /\ s_upPrimary' = ans
             /\ s_calls' = Append(s_calls, "primary")
             /\ IF ~r.threw
                THEN /\ s_status' = 200
                     /\ s_body' = r.list
                     /\ s_pc' = "done"
                ELSE /\ s_pc' = "fallback"
                     /\ UNCHANGED <<s_status, s_body>>
    /\ UNCHANGED <<s_q, s_upFallback>>
    /\ UNCHANGED <<parseVars, videoVars, refVars, dlVars, pageVars, ccVars, segVars>>

\* lines 118-125: the primary strategy; a non-empty list is the response
SearchPrimary ==
    /\ s_pc = "start"
    /\ ~QBlank(s_q)
    /\ \E ans \in PrimaryAnswers :
         LET r == dailymotionApiSearch(ans)
         IN  /\ s_upPrimary' = ans
             /\ s_calls' = Append(s_calls, "primary")
             /\ IF ~r.threw /\ Len(r.list) > 0
                THEN /\ s_status' = 200
                     /\ s_body' = r.list
                     /\ s_pc' = "done"
                ELSE /\ s_pc' = "fallback"
                     /\ UNCHANGED <<s_status, s_body>>
    /\ UNCHANGED <<s_q, s_upFallback>>
    /\ UNCHANGED <<parseVars, videoVars, refVars, dlVars, pageVars, ccVars, segVars>>

\* lines 127-136: the fallback strategy; its list, or 502 when it throws
SearchFallback ==
    /\ s_pc = "fallback"
    /\ \E ans \in FallbackAnswers :
         LET r == googleSearchDailymotion(ans)
         IN  /\ s_upFallback' = ans
             /\ s_calls' = Append(s_calls, "fallback")
             /\ s_status' = IF r.threw THEN 502 ELSE 200
             /\ s_body' = r.list
    /\ s_pc' = "done"
    /\ UNCHANGED <<s_q, s_upPrimary>>
    /\ UNCHANGED <<parseVars, videoVars, refVars, dlVars, pageVars, ccVars, segVars>>

SearchNext == SearchReject \/ SearchPrimary \/ SearchFallback

-----------------------------------------------------------------------------
(* Master manifests and parseM3u8Variants (video/route.ts, download/route.ts) *)

\* A manifest text is a sequence of lines.  A line is one of
\*   "extm3u"   the #EXTM3U header
\*   "inf"      #EXT-X-STREAM-INF:..., with res = RESOLUTION=<w>x<h> (None when
\*              the attribute is missing) and name = NAME="..." (None when missing)
\*   "comment"  any other line starting with #
\*   "uri"      a line that is not blank and does not start with #; uri is its text
\*   "blank"    an empty or all-blank line
HeaderLine  == [kind |-> "extm3u", res |-> None, name |-> None, uri |-> <<>>]
CommentLine == [kind |-> "comment", res |-> None, name |-> None, uri |-> <<>>]
BlankLine   == [kind |-> "blank", res |-> None, name |-> None, uri |-> <<>>]
InfLine(res, name) == [kind |-> "inf", res |-> res, name |-> name, uri |-> <<>>]
UriLine(u)  == [kind |-> "uri", res |-> None, name |-> None, uri |-> u]

\* line.trim().startsWith("#")
IsCommentLine(l) == l.kind \in {"extm3u", "inf", "comment"}

\* m3u8Text.trim().split("\n"): blank lines at either end are gone
RECURSIVE TrimLinesLeft(_)
TrimLinesLeft(ls) ==
    IF ls # <<>> /\ Head(ls).kind = "blank" THEN TrimLinesLeft(Tail(ls)) ELSE ls
RECURSIVE TrimLinesRight(_)
TrimLinesRight(ls) ==
    IF ls # <<>> /\ ls[Len(ls)].kind = "blank"
    THEN TrimLinesRight(SubSeq(ls, 1, Len(ls) - 1)) ELSE ls
SplitLines(m3u8Text) == TrimLinesRight(TrimLinesLeft(m3u8Text))

\* text.startsWith("http")
HttpPrefixed == {"http:", "https:", "httpd"}
StartsWithHttp(u) == u # <<>> /\ Head(u) \in HttpPrefixed

\* m3u8Text.includes("#EXTM3U")
HasExtM3U(m3u8Text) == \E i \in 1..Len(m3u8Text) : m3u8Text[i].kind = "extm3u"

\* ---- the copy in video/route.ts ----

\* lines 43-49: the next line that does not start with #, trimmed ("" if none)
RECURSIVE NextUri(_, _)
NextUri(lines, j) ==
    IF j > Len(lines) THEN <<>>
    ELSE IF IsCommentLine(lines[j]) THEN NextUri(lines, j + 1)
    ELSE lines[j].uri

\* (mutant) a relative URL line is pushed as it stands
VariantOf_NoJoin(l, u, baseUrl) ==
    LET width  == IF IsSome(l.res) THEN Some(Val(l.res)[1]) ELSE None
        height == IF IsSome(l.res) THEN Some(Val(l.res)[2]) ELSE None
    IN  [name   |-> IF IsSome(l.name) THEN Val(l.name)
                    ELSE IF IsSome(height) /\ Val(height) # 0
                    THEN ToString(Val(height))
                    ELSE "auto",
         url    |-> u,
         width  |-> width,
         height |-> height]

\* lines 36-40 and 50-52: the variant of the STREAM-INF line l with URL line u
VariantOf(l, u, baseUrl) ==
    LET width  == IF IsSome(l.res) THEN Some(Val(l.res)[1]) ELSE None
        height == IF IsSome(l.res) THEN Some(Val(l.res)[2]) ELSE None
    IN  [name   |-> IF IsSome(l.name) THEN Val(l.name)
                    ELSE IF IsSome(height) /\ Val(height) # 0
                    THEN ToString(Val(height))
                    ELSE "auto",
         url    |-> IF ~StartsWithHttp(u) THEN baseUrl \o <<"/">> \o u ELSE u,
         width  |-> width,
         height |-> height]

RECURSIVE ParseFrom(_, _, _)
ParseFrom(lines, i, baseUrl) ==
    IF i > Len(lines) THEN <<>>
    ELSE
      LET u == NextUri(lines, i + 1)
      IN  (IF lines[i].kind = "inf" /\ u # <<>>
           THEN <<VariantOf(lines[i], u, baseUrl)>>
           ELSE <<>>) \o ParseFrom(lines, i + 1, baseUrl)

parseM3u8Variants(m3u8Text, baseUrl) == ParseFrom(SplitLines(m3u8Text), 1, baseUrl)

\* ---- the copy in download/route.ts ----

RECURSIVE NextUriDl(_, _)
NextUriDl(lines, j) ==
    IF j > Len(lines) THEN <<>>
    ELSE IF IsCommentLine(lines[j]) THEN NextUriDl(lines, j + 1)
    ELSE lines[j].uri

\* (mutant) this copy takes the width of RESOLUTION for the height
VariantOfDl_WidthAsHeight(l, u, baseUrl) ==
    LET height == IF IsSome(l.res) THEN Some(Val(l.res)[1]) ELSE None
    IN  [name   |-> IF IsSome(l.name) THEN Val(l.name)
                    ELSE IF IsSome(height) /\ Val(height) # 0
                    THEN ToString(Val(height))
                    ELSE "auto",
         url    |-> IF ~StartsWithHttp(u) THEN baseUrl \o <<"/">> \o u ELSE u,
         height |-> height]

\* lines 20-23 and 31-34: the variant of the STREAM-INF line l with URL line u
VariantOfDl(l, u, baseUrl) ==
    LET height == IF IsSome(l.res) THEN Some(Val(l.res)[2]) ELSE None
    IN  [name   |-> IF IsSome(l.name) THEN Val(l.name)
                    ELSE IF IsSome(height) /\ Val(height) # 0
                    THEN ToString(Val(height))
                    ELSE "auto",
         url    |-> IF ~StartsWithHttp(u) THEN baseUrl \o <<"/">> \o u ELSE u,
         height |-> height]

RECURSIVE ParseFromDl(_, _, _)
ParseFromDl(lines, i, baseUrl) ==
    IF i > Len(lines) THEN <<>>
    ELSE
      LET u == NextUriDl(lines, i + 1)
      IN  (IF lines[i].kind = "inf" /\ u # <<>>
           THEN <<VariantOfDl(lines[i], u, baseUrl)>>
           ELSE <<>>) \o ParseFromDl(lines, i + 1, baseUrl)

parseM3u8VariantsDl(m3u8Text, baseUrl) ==
    ParseFromDl(SplitLines(m3u8Text), 1, baseUrl)

\* ---- both copies applied to one manifest ----

MaxLines == 4     \* lines of a manifest text

CdnManifestUrl == <<"https:", "/", "/", "cdn", "/", "sec", "/", "m.m3u8">>
CdnRootUrl     == <<"https:", "/", "/", "cdn">>
ManifestUrls   == {CdnManifestUrl, CdnRootUrl}

AbsUri     == <<"https:", "/", "/", "cdn", "/", "v", "/", "a.m3u8">>
RelUri     == <<"b.m3u8">>
HttpRelUri == <<"httpd", "/", "c.m3u8">>

ManifestLines ==
    {HeaderLine, CommentLine, BlankLine,
     InfLine(Some(<<1280, 720>>), None),
     InfLine(Some(<<848, 480>>), Some("480")),
     InfLine(None, None),
     UriLine(AbsUri), UriLine(RelUri), UriLine(HttpRelUri)}

ParseInit ==
    /\ p_m3u8Url \in ManifestUrls
    /\ p_text \in SeqUpTo(ManifestLines, MaxLines)
    /\ p_video = None
    /\ p_download = None

ParseIdle ==
    /\ p_m3u8Url = <<>>
    /\ p_text = <<>>
    /\ p_video = None
    /\ p_download = None

\* video/route.ts lines 117-118
ParseVideo ==
    /\ p_m3u8Url # <<>>
    /\ p_video = None
    /\ p_video' = Some(parseM3u8Variants(p_text, BaseUrlOf(p_m3u8Url)))
    /\ UNCHANGED <<p_m3u8Url, p_text, p_download>>
    /\ UNCHANGED <<searchVars, videoVars, refVars, dlVars, pageVars, ccVars, segVars>>

\* download/route.ts lines 87-88
ParseDownload ==
    /\ p_m3u8Url # <<>>
    /\ p_download = None
    /\ p_download' = Some(parseM3u8VariantsDl(p_text, BaseUrlOf(p_m3u8Url)))
    /\ UNCHANGED <<p_m3u8Url, p_text, p_video>>
    /\ UNCHANGED <<searchVars, videoVars, refVars, dlVars, pageVars, ccVars, segVars>>

ParseNext == ParseVideo \/ ParseDownload

-----------------------------------------------------------------------------
(* GET /api/video *)

\* (mutant) any path segment is taken for "video"
extractVideoId_AnyPath(url) ==
    LET at == {i \in 1..Len(url) :
                  /\ i + 4 <= Len(url)
                  /\ url[i] = "dailymotion.com"
                  /\ url[i + 4] \in Alnum}
    IN  IF at = {} THEN None
        ELSE LET i == CHOOSE i \in at : \A j \in at : i <= j
             IN  Some(SubSeq(url, i + 4, AlnumRunEnd(url, i + 4)))

\* url.match(/dailymotion\.com\/video\/([a-zA-Z0-9]+)/): group 1 of the
\* leftmost match, None when there is no match
extractVideoId(url) ==
    LET at == {i \in 1..Len(url) : WatchPatternAt(url, i)}
    IN  IF at = {} THEN None
        ELSE LET i == CHOOSE i \in at : \A j \in at : i <= j
             IN  Some(SubSeq(url, i + 4, AlnumRunEnd(url, i + 4)))

\* Buffer.from(x).toString("base64url"): the encoded text is not the text
B64Url(x) == <<"base64url", x>>

\* ---- stream_formats keys: sequences of characters ----

Digits == {"0", "1", "2", "3", "4", "5", "6", "7", "8", "9"}

DigitVal(c) ==
    CASE c = "0" -> 0 [] c = "1" -> 1 [] c = "2" -> 2 [] c = "3" -> 3
      [] c = "4" -> 4 [] c = "5" -> 5 [] c = "6" -> 6 [] c = "7" -> 7
      [] c = "8" -> 8 [] c = "9" -> 9

\* /^\d+$/.test(k)
IsDigits(k) == k # <<>> /\ \A i \in 1..Len(k) : k[i] \in Digits

\* parseInt(k) of a key made of digits
RECURSIVE ParseInt(_)
ParseInt(k) ==
    IF k = <<>> THEN 0
    ELSE 10 * ParseInt(SubSeq(k, 1, Len(k) - 1)) + DigitVal(k[Len(k)])

\* the key as one text
RECURSIVE KeyText(_)
KeyText(k) == IF k = <<>> THEN "" ELSE Head(k) \o KeyText(Tail(k))

\* formatKeys.filter((k) => /^\d+$/.test(k))
RECURSIVE NumericKeys(_)
NumericKeys(ks) ==
    IF ks = <<>> THEN <<>>
    ELSE (IF IsDigits(Head(ks)) THEN <<Head(ks)>> ELSE <<>>) \o NumericKeys(Tail(ks))

\* Array.prototype.sort is stable: x goes behind every element that does not
\* sort after it
RECURSIVE InsertKeyDesc(_, _)
InsertKeyDesc(sorted, k) ==
    IF sorted # <<>> /\ ParseInt(Head(sorted)) >= ParseInt(k)
    THEN <<Head(sorted)>> \o InsertKeyDesc(Tail(sorted), k)
    ELSE <<k>> \o sorted

\* .sort((a, b) => parseInt(b) - parseInt(a))
RECURSIVE SortKeysDesc(_)
SortKeysDesc(ks) ==
    IF ks = <<>> THEN <<>>
    ELSE InsertKeyDesc(SortKeysDesc(SubSeq(ks, 1, Len(ks) - 1)), ks[Len(ks)])

QualityMapKeys == {"380", "480", "720", "1080"}

QUALITY_MAP(fmt) ==
    CASE fmt = "380"  -> [label |-> "380p",  width |-> Some(512),  height |-> Some(288)]
      [] fmt = "480"  -> [label |-> "480p",  width |-> Some(848),  height |-> Some(480)]
      [] fmt = "720"  -> [label |-> "720p",  width |-> Some(1280), height |-> Some(720)]
      [] fmt = "1080" -> [label |-> "1080p", width |-> Some(1920), height |-> Some(1080)]

\* QUALITY_MAP[fmt] || { label: `${fmt}p`, width: null, height: parseInt(fmt) }
QualityInfo(k) ==
    IF KeyText(k) \in QualityMapKeys THEN QUALITY_MAP(KeyText(k))
    ELSE [label |-> KeyText(k) \o "p", width |-> None, height |-> Some(ParseInt(k))]

\* ---- Renditions ----
\* A stream is [quality, url, width, height, src].  url is the query of the
\* /api/download link, one field per parameter (None: the parameter is not in
\* the link).  src is not part of the JSON: it records which step of the
\* handler pushed the stream ("manifest", "formats" or "last").

NoParams == [id |-> None, u |-> None, t |-> None, q |-> None,
             quality |-> None, m |-> None]

\* meta.title || "Unknown"
TitleOf(meta) == IF meta.title # "" THEN meta.title ELSE "Unknown"

\* (mutant) the quality label is the variant name without the "p"
ManifestStream_BareName(v, videoId, title) ==
    [quality |-> v.name,
     url     |-> [NoParams EXCEPT !.id = Some(videoId), !.u = Some(B64Url(v.url)),
                                  !.t = Some(B64Url(title)), !.q = Some(v.name)],
     width   |-> v.width,
     height  |-> v.height,
     src     |-> "manifest"]

\* lines 119-129: the stream of one manifest variant
ManifestStream(v, videoId, title) ==
    [quality |-> v.name \o "p",
     url     |-> [NoParams EXCEPT !.id = Some(videoId), !.u = Some(B64Url(v.url)),
                                  !.t = Some(B64Url(title)), !.q = Some(v.name)],
     width   |-> v.width,
     height  |-> v.height,
     src     |-> "manifest"]

\* lines 151-158: the stream of one stream_formats key
FormatStream(k, videoId, title, m3u8Url) ==
    LET info == QualityInfo(k)
    IN  [quality |-> info.label,
         url     |-> [NoParams EXCEPT
                        !.id = Some(videoId),
                        !.quality = Some(KeyText(k)),
                        !.m = Some(IF IsSome(m3u8Url) THEN B64Url(Val(m3u8Url)) ELSE <<>>),
                        !.t = Some(B64Url(title))],
         width   |-> info.width,
         height  |-> info.height,
         src     |-> "formats"]

\* lines 139-159: the streams of meta.stream_formats
FormatStreams(meta, videoId) ==
    LET keys == SortKeysDesc(NumericKeys(meta.formats.keys))
    IN  [i \in 1..Len(keys) |->
            FormatStream(keys[i], videoId, TitleOf(meta), meta.m3u8Url)]

\* lines 164-170
LastResortStream(videoId, title) ==
    [quality |-> "auto",
     url     |-> [NoParams EXCEPT !.id = Some(videoId), !.quality = Some("auto"),
                                  !.t = Some(B64Url(title))],
     width   |-> None,
     height  |-> None,
     src     |-> "last"]

\* (b.height || 0)
HeightKey(st) == IF IsSome(st.height) THEN Val(st.height) ELSE 0

\* (mutant) a stream goes in front of the streams of the same height
InsertStreamDesc_Unstable(sorted, st) ==
    LET before == {i \in 1..Len(sorted) : HeightKey(sorted[i]) > HeightKey(st)}
        n      == Cardinality(before)
    IN  SubSeq(sorted, 1, n) \o <<st>> \o SubSeq(sorted, n + 1, Len(sorted))

RECURSIVE InsertStreamDesc(_, _)
InsertStreamDesc(sorted, st) ==
    IF sorted # <<>> /\ HeightKey(Head(sorted)) >= HeightKey(st)
    THEN <<Head(sorted)>> \o InsertStreamDesc(Tail(sorted), st)
    ELSE <<st>> \o sorted

\* line 174: streams.sort((a, b) => (b.height || 0) - (a.height || 0))
RECURSIVE SortStreams(_)
SortStreams(streams) ==
    IF streams = <<>> THEN <<>>
    ELSE InsertStreamDesc(SortStreams(SubSeq(streams, 1, Len(streams) - 1)),
                          streams[Len(streams)])

\* ---- the inputs of one request ----

MaxVLines == 4    \* lines of the manifest the Extractor fetches
MaxFormats == 2   \* keys of meta.stream_formats

UrlParams ==
    {None, Some(<<>>),
     Some(WatchUrl(<<"x", "2">>) \o <<"?", "a">>),
     Some(<<"https:", "/", "/", "www.", "dailymotion.com", "/", "playlist", "/", "x">>),
     Some(<<"https:", "/", "/", "dai.ly", "/", "x", "2">>),
     Some(WatchUrl(<<>>))}

FormatKeys == {<<"3", "8", "0">>, <<"2", "8", "8">>, <<"h", "l", "s">>}

\* Object.keys lists integer keys in ascending order, then the other keys
ObjectKeyLists ==
    {ks \in SeqUpTo(FormatKeys, MaxFormats) :
        \A i, j \in 1..Len(ks) :
            i < j => /\ ks[i] # ks[j]
                     /\ IsDigits(ks[j]) => /\ IsDigits(ks[i])
                                           /\ ParseInt(ks[i]) < ParseInt(ks[j])}

StreamFormats ==
    {[shape |-> "absent", keys |-> <<>>]}
    \cup {[shape |-> "array", keys |-> ks] : ks \in SeqUpTo(FormatKeys, MaxFormats)}
    \cup {[shape |-> "object", keys |-> ks] : ks \in ObjectKeyLists}

Metas ==
    [title : {"", "Vincenzo"}, m3u8Url : {None, Some(CdnManifestUrl)},
     formats : StreamFormats]

EmptyMeta == [title |-> "", m3u8Url |-> None,
              formats |-> [shape |-> "absent", keys |-> <<>>]]

\* the answer to the metadata fetch: "neterr" (fetch rejects), "nonok",
\* "badjson" (200, body is not JSON), "json" (200, meta is the parsed body)
MetaAnswers ==
    {[kind |-> k, meta |-> EmptyMeta] : k \in {"neterr", "nonok", "badjson"}}
    \cup {[kind |-> "json", meta |-> m] : m \in Metas}

ExtractorLines ==
    {InfLine(Some(<<1280, 720>>), None),
     InfLine(Some(<<848, 480>>), Some("480")),
     InfLine(Some(<<640, 0>>), None),
     InfLine(None, None),
     UriLine(RelUri)}

\* bodies of a 200 answer that is no manifest (no #EXTM3U in it)
NoHeaderTexts ==
    {<<>>, <<InfLine(Some(<<1280, 720>>), None), UriLine(RelUri)>>}

\* the answer to the manifest fetch: "neterr" (fetch or body read rejects),
\* "nonok", "text" (200 with the body; header: the body has #EXTM3U)
ManifestAnswers ==
    {[kind |-> k, header |-> FALSE, lines |-> <<>>] : k \in {"neterr", "nonok"}}
    \cup {[kind |-> "text", header |-> FALSE, lines |-> ls] : ls \in NoHeaderTexts}
    \cup {[kind |-> "text", header |-> TRUE, lines |-> ls] :
            ls \in SeqUpTo(ExtractorLines, MaxVLines)}

ManifestText(ans) == (IF ans.header THEN <<HeaderLine>> ELSE <<>>) \o ans.lines

NoMetaAnswer == [kind |-> "none", meta |-> EmptyMeta]
NoManifestAnswer == [kind |-> "none", header |-> FALSE, lines |-> <<>>]

\* ---- the handler ----

VideoInit ==
    /\ v_pc = "start"
    /\ v_url \in UrlParams
    /\ v_videoId = None
    /\ v_upMeta = NoMetaAnswer
    /\ v_upManifest = NoManifestAnswer
    /\ v_fetches = <<>>
    /\ v_variants = <<>>
    /\ v_branches = {}
    /\ v_built = <<>>
    /\ v_status = 0
    /\ v_streams = <<>>

VideoIdle ==
    /\ v_pc = "idle"
    /\ v_url = None
    /\ v_videoId = None
    /\ v_upMeta = NoMetaAnswer
    /\ v_upManifest = NoManifestAnswer
    /\ v_fetches = <<>>
    /\ v_variants = <<>>
    /\ v_branches = {}
    /\ v_built = <<>>
    /\ v_status = 0
    /\ v_streams = <<>>

\* !url, or extractVideoId(url) is null
UrlRejected(url) ==
    IF url = None THEN TRUE
    ELSE IF Val(url) = <<>> THEN TRUE
    ELSE extractVideoId(Val(url)) = None

\* lines 61-69: 400 without any fetch
VideoReject ==
    /\ v_pc = "start"
    /\ UrlRejected(v_url)
    /\ v_status' = 400
    /\ v_pc' = "done"
    /\ UNCHANGED <<v_url, v_videoId, v_upMeta, v_upManifest, v_fetches, v_variants,
                   v_branches, v_built, v_streams>>
    /\ UNCHANGED <<searchVars, parseVars, refVars, dlVars, pageVars, ccVars, segVars>>

\* (mutant) the fallback step runs whatever the manifest gave
VideoRespond_AlwaysFormats(meta, videoId, variants) ==
    LET title        == TitleOf(meta)
        fromManifest == [i \in 1..Len(variants) |->
                            ManifestStream(variants[i], videoId, title)]
        withFormats  == fromManifest \o FormatStreams(meta, videoId)
        built        == IF withFormats # <<>> THEN withFormats
                        ELSE <<LastResortStream(videoId, title)>>
    IN  /\ v_variants' = variants
        /\ v_branches' = {"formats"} \cup (IF withFormats = <<>> THEN {"last"} ELSE {})
        /\ v_built' = built
        /\ v_streams' = SortStreams(built)
        /\ v_status' = 200
        /\ v_pc' = "done"

\* (mutant) the order of streams of equal height differs from call to call
VideoRespond_TiesInAnyOrder(meta, videoId, variants) ==
    LET title        == TitleOf(meta)
        fromManifest == [i \in 1..Len(variants) |->
                            ManifestStream(variants[i], videoId, title)]
        useFormats   == fromManifest = <<>>
        withFormats  == IF useFormats THEN FormatStreams(meta, videoId)
                        ELSE fromManifest
        useLast      == withFormats = <<>>
        built        == IF useLast THEN <<LastResortStream(videoId, title)>>
                        ELSE withFormats
        turned       == [i \in 1..Len(built) |-> built[Len(built) + 1 - i]]
    IN  /\ v_variants' = variants
        /\ v_branches' = (IF useFormats THEN {"formats"} ELSE {})
                         \cup (IF useLast THEN {"last"} ELSE {})
        /\ v_built' = built
        /\ v_streams' \in {SortStreams(built), SortStreams(turned)}
        /\ v_status' = 200
        /\ v_pc' = "done"

\* (mutant) without the last resort of lines 164-171
VideoRespond_NoLastResort(meta, videoId, variants) ==
    LET title        == TitleOf(meta)
        fromManifest == [i \in 1..Len(variants) |->
                            ManifestStream(variants[i], videoId, title)]
        useFormats   == fromManifest = <<>>
        built        == IF useFormats THEN FormatStreams(meta, videoId)
                        ELSE fromManifest
    IN  /\ v_variants' = variants
        /\ v_branches' = (IF useFormats THEN {"formats"} ELSE {})
        /\ v_built' = built
        /\ v_streams' = SortStreams(built)
        /\ v_status' = 200
        /\ v_pc' = "done"

\* lines 119-183, after the manifest step: the streams of the variants, else
\* those of stream_formats, else the last resort; sorted; the 200 response
VideoRespond(meta, videoId, variants) ==
    LET title        == TitleOf(meta)
        fromManifest == [i \in 1..Len(variants) |->
                            ManifestStream(variants[i], videoId, title)]
        useFormats   == fromManifest = <<>>
        withFormats  == IF useFormats THEN FormatStreams(meta, videoId)
                        ELSE fromManifest
        useLast      == withFormats = <<>>
        built        == IF useLast THEN <<LastResortStream(videoId, title)>>
                        ELSE withFormats
    IN  /\ v_variants' = variants
        /\ v_branches' = (IF useFormats THEN {"formats"} ELSE {})
                         \cup (IF useLast THEN {"last"} ELSE {})
        /\ v_built' = built
        /\ v_streams' = SortStreams(built)
        /\ v_status' = 200
        /\ v_pc' = "done"

\* (mutant) metaResp.ok is not looked at
VideoMeta_NoOkCheck ==
    /\ v_pc = "start"
    /\ ~UrlRejected(v_url)
    /\ \E ans \in MetaAnswers :
         LET videoId == Val(extractVideoId(Val(v_url)))
         IN  /\ v_videoId' = Some(videoId)
             /\ v_upMeta' = ans
             /\ v_fetches' = Append(v_fetches, "meta")
             /\ IF ans.kind \in {"neterr", "badjson"}
                THEN /\ v_status' = 502
                     /\ v_pc' = "done"
                     /\ UNCHANGED <<v_variants, v_branches, v_built, v_streams>>
                ELSE IF IsSome(ans.meta.m3u8Url)
                THEN /\ v_pc' = "manifest"
                     /\ UNCHANGED <<v_variants, v_branches, v_built, v_status,
                                    v_streams>>
                ELSE VideoRespond(ans.meta, videoId, <<>>)
    /\ UNCHANGED <<v_url, v_upManifest>>
    /\ UNCHANGED <<searchVars, parseVars, refVars, dlVars, pageVars, ccVars, segVars>>

\* lines 66-108: the metadata fetch.  502 when it rejects, is not ok, or its
\* body is not JSON; with a manifest reference the manifest is fetched next;
\* without one the handler runs to its end.
VideoMeta ==
    /\ v_pc = "start"
    /\ ~UrlRejected(v_url)
    /\ \E ans \in MetaAnswers :
         LET videoId == Val(extractVideoId(Val(v_url)))
         IN  /\ v_videoId' = Some(videoId)
             /\ v_upMeta' = ans
             /\ v_fetches' = Append(v_fetches, "meta")
             /\ IF ans.kind \in {"neterr", "nonok", "badjson"}
                THEN /\ v_status' = 502
                     /\ v_pc' = "done"
                     /\ UNCHANGED <<v_variants, v_branches, v_built, v_streams>>
                ELSE IF IsSome(ans.meta.m3u8Url)
                THEN /\ v_pc' = "manifest"
                     /\ UNCHANGED <<v_variants, v_branches, v_built, v_status,
                                    v_streams>>
                ELSE VideoRespond(ans.meta, videoId, <<>>)
    /\ UNCHANGED <<v_url, v_upManifest>>
    /\ UNCHANGED <<searchVars, parseVars, refVars, dlVars, pageVars, ccVars, segVars>>

\* lines 109-134: the variants of the manifest answer; none when the fetch
\* rejects, is not ok, or the body has no #EXTM3U
VariantsOfAnswer(ans, m3u8Url) ==
    IF ans.kind = "text" /\ HasExtM3U(ManifestText(ans))
    THEN parseM3u8Variants(ManifestText(ans), BaseUrlOf(m3u8Url))
    ELSE <<>>

\* the streams a call of GET /api/video returns for url when the metadata
\* fetch is answered with the JSON body metaAns and the manifest fetch, if
\* one is made, with manifestAns
StreamsFor(url, metaAns, manifestAns) ==
    LET meta     == metaAns.meta
        videoId  == Val(extractVideoId(Val(url)))
        title    == TitleOf(meta)
        variants == IF IsSome(meta.m3u8Url)
                    THEN VariantsOfAnswer(manifestAns, Val(meta.m3u8Url))
                    ELSE <<>>
        a        == [i \in 1..Len(variants) |->
                        ManifestStream(variants[i], videoId, title)]
        b        == IF a # <<>> THEN a ELSE FormatStreams(meta, videoId)
        c        == IF b # <<>> THEN b ELSE <<LastResortStream(videoId, title)>>
    IN  SortStreams(c)

\* (mutant) the manifest fetch outside the try of lines 109-135: a rejected
\* fetch reaches the catch of line 184
VideoManifest_NoCatch ==
    /\ v_pc = "manifest"
    /\ \E ans \in ManifestAnswers :
         /\ v_upManifest' = ans
         /\ v_fetches' = Append(v_fetches, "manifest")
         /\ IF ans.kind = "neterr"
            THEN /\ v_status' = 502
                 /\ v_pc' = "done"
                 /\ UNCHANGED <<v_variants, v_branches, v_built, v_streams>>
            ELSE VideoRespond(v_upMeta.meta, Val(v_videoId),
                              VariantsOfAnswer(ans, Val(v_upMeta.meta.m3u8Url)))
    /\ UNCHANGED <<v_url, v_videoId, v_upMeta>>
    /\ UNCHANGED <<searchVars, parseVars, refVars, dlVars, pageVars, ccVars, segVars>>

\* lines 109-183: the manifest fetch and the rest of the handler
VideoManifest ==
    /\ v_pc = "manifest"
    /\ \E ans \in ManifestAnswers :
         /\ v_upManifest' = ans
         /\ v_fetches' = Append(v_fetches, "manifest")
         /\ VideoRespond(v_upMeta.meta, Val(v_videoId),
                         VariantsOfAnswer(ans, Val(v_upMeta.meta.m3u8Url)))
    /\ UNCHANGED <<v_url, v_videoId, v_upMeta>>
    /\ UNCHANGED <<searchVars, parseVars, refVars, dlVars, pageVars, ccVars, segVars>>

VideoNext == VideoReject \/ VideoMeta \/ VideoManifest

-----------------------------------------------------------------------------
(* The /api/download link of a Rendition, as text, and its query as the     *)
(* Streamer reads it                                                        *)

\* The link is a sequence of atoms.  A literal atom carries a piece of text
\* that holds no "&" and no "=", or is "&" or "=" itself; an encoded atom is
\* the base64url text of a payload (its alphabet has neither "&" nor "=").
Lit(s) == [c |-> "lit", s |-> s, of |-> <<>>]
Enc(x) == [c |-> "b64", s |-> "", of |-> x]

IsLit(a, s) == a.c = "lit" /\ a.s = s

\* a variant name that holds the character "&"
AmpName == "hd&x"

\* the text of a name, cut at its "&" characters
NameChars(n) == IF n = AmpName THEN <<"hd", "&", "x">> ELSE <<n>>

Lits(chars) == [i \in 1..Len(chars) |-> Lit(chars[i])]

\* the template `k=${v}` of one parameter, v already a sequence of atoms
Param(k, v) == <<Lit(k), Lit("=")>> \o v

\* video/route.ts lines 125, 155 and 167: the three template strings; no
\* value is passed through encodeURIComponent
DownloadLink(st) ==
    LET p == st.url
    IN  <<Lit("/api/download"), Lit("?")>> \o
        (CASE st.src = "manifest" ->
                Param("id", Lits(Val(p.id))) \o <<Lit("&")>>
                \o Param("u", <<Enc(Val(p.u))>>) \o <<Lit("&")>>
                \o Param("t", <<Enc(Val(p.t))>>) \o <<Lit("&")>>
                \o Param("q", Lits(NameChars(Val(p.q))))
           [] st.src = "formats" ->
                Param("id", Lits(Val(p.id))) \o <<Lit("&")>>
                \o Param("quality", <<Lit(Val(p.quality))>>) \o <<Lit("&")>>
                \o Param("m", IF Val(p.m) = <<>> THEN <<>> ELSE <<Enc(Val(p.m))>>)
                \o <<Lit("&")>>
                \o Param("t", <<Enc(Val(p.t))>>)
           [] st.src = "last" ->
                Param("id", Lits(Val(p.id))) \o <<Lit("&")>>
                \o Param("quality", <<Lit(Val(p.quality))>>) \o <<Lit("&")>>
                \o Param("t", <<Enc(Val(p.t))>>))

\* the query of a link: what follows the first "?"
QueryOf(link) ==
    LET at == {i \in 1..Len(link) : IsLit(link[i], "?")}
    IN  IF at = {} THEN <<>>
        ELSE SubSeq(link, (CHOOSE i \in at : \A j \in at : i <= j) + 1, Len(link))

\* the query split at every "&"
RECURSIVE SplitAmp(_)
SplitAmp(q) ==
    LET at == {i \in 1..Len(q) : IsLit(q[i], "&")}
    IN  IF at = {} THEN <<q>>
        ELSE LET i == CHOOSE i \in at : \A j \in at : i <= j
             IN  <<SubSeq(q, 1, i - 1)>> \o SplitAmp(SubSeq(q, i + 1, Len(q)))

\* a piece k=v, or a bare k, of the query
IsPairOf(piece, k) ==
    /\ piece # <<>>
    /\ IsLit(piece[1], k)
    /\ Len(piece) >= 2 => IsLit(piece[2], "=")

\* download/route.ts lines 129-135: request.nextUrl.searchParams.get(k): the
\* value of the first piece whose key is k, None when there is none
SearchParamsGet(link, k) ==
    LET pieces == SplitAmp(QueryOf(link))
        at     == {i \in 1..Len(pieces) : IsPairOf(pieces[i], k)}
    IN  IF at = {} THEN None
        ELSE LET i == CHOOSE i \in at : \A j \in at : i <= j
             IN  Some(SubSeq(pieces[i], 3, Len(pieces[i])))

\* the text of a value made of literal atoms
RECURSIVE LitText(_)
LitText(v) == IF v = <<>> THEN "" ELSE Head(v).s \o LitText(Tail(v))

\* its characters, one per atom (an identifier)
LitChars(v) == [i \in 1..Len(v) |-> v[i].s]

\* Buffer.from(x, "base64url").toString() of a value that is one encoded atom
DecodeB64Url(v) == v[1].of[2]

\* lines 131-134: get("q") || get("quality") || "auto"
QualityParamOf(link) ==
    LET q       == SearchParamsGet(link, "q")
        quality == SearchParamsGet(link, "quality")
    IN  IF q # None /\ LitText(Val(q)) # "" THEN LitText(Val(q))
        ELSE IF quality # None /\ LitText(Val(quality)) # "" THEN LitText(Val(quality))
        ELSE "auto"

\* ---- Strategy A, step 3: the variant of the requested quality ----

\* String(v.height)
HeightText(h) == IF h = None THEN "null" ELSE ToString(Val(h))

\* lines 91-93: variants.find(v => v.name === quality || String(v.height) === quality),
\* as the position of the variant found; 0 when there is none
FindVariant(variants, quality) ==
    LET hits == {i \in 1..Len(variants) :
                    \/ variants[i].name = quality
                    \/ HeightText(variants[i].height) = quality}
    IN  IF hits = {} THEN 0 ELSE CHOOSE i \in hits : \A j \in hits : i <= j

\* (mutant) the last variant is taken whatever was asked for
VariantUrlFor_AlwaysLast(variants, quality) == variants[Len(variants)].url

\* line 94: match?.url || variants[variants.length - 1].url
VariantUrlFor(variants, quality) ==
    IF FindVariant(variants, quality) = 0 THEN variants[Len(variants)].url
    ELSE variants[FindVariant(variants, quality)].url

-----------------------------------------------------------------------------
(* A Rendition handed from the Extractor to the Streamer: the Extractor     *)
(* builds the Renditions of one manifest, the caller follows the link of    *)
(* one of them, Strategy A reads the link and selects a variant of the same *)
(* manifest                                                                 *)

MaxRefLines == 4  \* lines of the manifest, after its header

RefVideoId == <<"x", "2">>
RefTitle == "Vincenzo"

RefLines ==
    {InfLine(Some(<<1280, 720>>), None),
     InfLine(Some(<<640, 360>>), Some("720")),
     InfLine(None, Some(AmpName)),
     InfLine(None, None),
     UriLine(RelUri), UriLine(AbsUri)}

RefText == <<HeaderLine>> \o r_lines

RefInit ==
    /\ r_pc = "start"
    /\ r_lines \in SeqUpTo(RefLines, MaxRefLines)
    /\ r_streams = <<>>
    /\ r_pick = 0
    /\ r_link = <<>>
    /\ r_id = None
    /\ r_quality = ""
    /\ r_found = 0
    /\ r_variantUrl = <<>>

RefIdle ==
    /\ r_pc = "idle"
    /\ r_lines = <<>>
    /\ r_streams = <<>>
    /\ r_pick = 0
    /\ r_link = <<>>
    /\ r_id = None
    /\ r_quality = ""
    /\ r_found = 0
    /\ r_variantUrl = <<>>

\* video/route.ts lines 116-130 and 174: the streams of the manifest's variants
RefExtract ==
    /\ r_pc = "start"
    /\ LET variants == parseM3u8Variants(RefText, BaseUrlOf(CdnManifestUrl))
           built    == [i \in 1..Len(variants) |->
                           ManifestStream(variants[i], RefVideoId, RefTitle)]
       IN  /\ r_streams' = SortStreams(built)
           /\ r_pc' = IF variants = <<>> THEN "done" ELSE "extracted"
    /\ UNCHANGED <<r_lines, r_pick, r_link, r_id, r_quality, r_found, r_variantUrl>>
    /\ UNCHANGED <<searchVars, parseVars, videoVars, dlVars, pageVars, ccVars, segVars>>

\* the caller requests the link of one Rendition
RefRequest ==
    /\ r_pc = "extracted"
    /\ \E i \in 1..Len(r_streams) :
         /\ r_pick' = i
         /\ r_link' = DownloadLink(r_streams[i])
    /\ r_pc' = "requested"
    /\ UNCHANGED <<r_lines, r_streams, r_id, r_quality, r_found, r_variantUrl>>
    /\ UNCHANGED <<searchVars, parseVars, videoVars, dlVars, pageVars, ccVars, segVars>>

\* download/route.ts lines 129-135 and 84-94: the parameters of the link and
\* the variant Strategy A selects in the same manifest
RefResolve ==
    /\ r_pc = "requested"
    /\ LET quality  == QualityParamOf(r_link)
           id       == SearchParamsGet(r_link, "id")
           variants == parseM3u8VariantsDl(RefText, BaseUrlOf(CdnManifestUrl))
       IN  /\ r_id' = IF id = None THEN None ELSE Some(LitChars(Val(id)))
           /\ r_quality' = quality
           /\ r_found' = FindVariant(variants, quality)
           /\ r_variantUrl' = VariantUrlFor(variants, quality)
    /\ r_pc' = "done"
    /\ UNCHANGED <<r_lines, r_streams, r_pick, r_link>>
    /\ UNCHANGED <<searchVars, parseVars, videoVars, dlVars, pageVars, ccVars, segVars>>

RefNext == RefExtract \/ RefRequest \/ RefResolve

\* ---- Strategy A, step 3, for a caller that writes the quality itself ----

\* values of q; "auto" is also what the handler takes when none is given
SelectQualities == {"auto", "720", "360", "1080", "null"}

SelectInit ==
    /\ r_pc = "select"
    /\ r_lines \in SeqUpTo(RefLines, MaxRefLines)
    /\ r_streams = <<>>
    /\ r_pick = 0
    /\ r_link = <<>>
    /\ r_id = Some(RefVideoId)
    /\ r_quality \in SelectQualities
    /\ r_found = 0
    /\ r_variantUrl = <<>>

\* download/route.ts lines 87-94: the variants of the manifest and the one
\* Strategy A goes on with; no variant at all ends Strategy A (line 89)
RefSelect ==
    /\ r_pc = "select"
    /\ LET variants == parseM3u8VariantsDl(RefText, BaseUrlOf(CdnManifestUrl))
       IN  IF variants = <<>>
           THEN /\ r_pc' = "none"
                /\ UNCHANGED <<r_found, r_variantUrl>>
           ELSE /\ r_pc' = "done"
                /\ r_found' = FindVariant(variants, r_quality)
                /\ r_variantUrl' = VariantUrlFor(variants, r_quality)
    /\ UNCHANGED <<r_lines, r_streams, r_pick, r_link, r_id, r_quality>>
    /\ UNCHANGED <<searchVars, parseVars, videoVars, dlVars, pageVars, ccVars, segVars>>

SelectNext == RefSelect

-----------------------------------------------------------------------------
(* GET /api/download *)

\* ---- segment playlists ----

\* lines 102-106 (Strategy A): the non-blank, non-comment lines of the
\* playlist, each made absolute against the directory of the variant URL
RECURSIVE SegmentsOfA(_, _)
SegmentsOfA(varText, variantUrl) ==
    IF varText = <<>> THEN <<>>
    ELSE LET l == Head(varText)
         IN  (IF l.kind = "uri"
              THEN <<IF StartsWithHttp(l.uri) THEN l.uri
                     ELSE BaseUrlOf(variantUrl) \o <<"/">> \o l.uri>>
              ELSE <<>>) \o SegmentsOfA(Tail(varText), variantUrl)

\* (mutant) Strategy B keeps a relative line as it is written
RECURSIVE SegmentsOfB_NoBase(_, _)
SegmentsOfB_NoBase(text, variantUrl) ==
    IF text = <<>> THEN <<>>
    ELSE LET l == Head(text)
         IN  (IF l.kind = "uri" THEN <<l.uri>> ELSE <<>>)
             \o SegmentsOfB_NoBase(Tail(text), variantUrl)

\* lines 119-123 (Strategy B): the same steps, written a second time
RECURSIVE SegmentsOfB(_, _)
SegmentsOfB(text, variantUrl) ==
    IF text = <<>> THEN <<>>
    ELSE LET l == Head(text)
         IN  (IF l.kind = "uri"
              THEN <<IF StartsWithHttp(l.uri) THEN l.uri
                     ELSE BaseUrlOf(variantUrl) \o <<"/">> \o l.uri>>
              ELSE <<>>) \o SegmentsOfB(Tail(text), variantUrl)

\* ---- titles: sequences of atoms, one atom per run of characters ----

DefaultTitle == <<"video">>

\* atoms matching [\w\s-]
WordAtoms == {"video", "Vincenzo", "E01", " ", "-"}
\* atoms with a character above U+00FF (no ByteString)
WideAtoms == {"U+2019"}

\* .replace(/[^\w\s-]/g, "")
RECURSIVE StripTitle(_)
StripTitle(t) ==
    IF t = <<>> THEN <<>>
    ELSE (IF Head(t) \in WordAtoms THEN <<Head(t)>> ELSE <<>>) \o StripTitle(Tail(t))

\* lines 72-75: (meta.title || "video").replace(...).substring(0, 60).trim();
\* the titles of the model are shorter than 60 characters
ResolvedTitle(metaTitle) ==
    Trim(StripTitle(IF metaTitle = <<>> THEN DefaultTitle ELSE metaTitle))

\* a header value must be a ByteString: the Response constructor throws a
\* TypeError on a character above U+00FF
IsByteString(t) == \A i \in 1..Len(t) : t[i] \notin WideAtoms

\* ---- the inputs of one request ----

MaxPlLines == 2   \* lines of a variant playlist
MaxChunks == 2    \* chunks of a segment body

DirectUrl == <<"https:", "/", "/", "cdn", "/", "d", "/", "v.m3u8">>

IdParams == {None, Some(RefVideoId)}
UParams == {None, Some(B64Url(DirectUrl))}
TParams == {None, Some(B64Url(<<"Vincenzo", " ", "E01">>)),
            Some(B64Url(<<"Vincenzo", "U+2019">>)), Some(B64Url(DefaultTitle))}
\* the pairs (q, quality)
QualityParams == {<<None, None>>, <<Some("720"), None>>, <<None, Some("380")>>}

MetaTitles == {<<>>, <<"Vincenzo", "!", " ">>}

\* answers of an ok metadata fetch: a body that is no JSON, or the fields
\* title and qualities.auto[0].url of the parsed body
MetaBodies ==
    {[kind |-> "badjson", title |-> <<>>, m3u8Url |-> None]}
    \cup {[kind |-> "json", title |-> t, m3u8Url |-> m] :
            t \in MetaTitles, m \in {None, Some(CdnManifestUrl)}}

NoMeta == [kind |-> "none", title |-> <<>>, m3u8Url |-> None]

\* bodies of an ok master-manifest fetch; "bodyerr": reading the body rejects
MasterBodies ==
    {[kind |-> "bodyerr", text |-> <<>>],
     [kind |-> "text", text |-> <<InfLine(Some(<<1280, 720>>), None), UriLine(RelUri)>>],
     [kind |-> "text", text |-> <<HeaderLine, InfLine(Some(<<1280, 720>>), None)>>],
     [kind |-> "text", text |-> <<HeaderLine,
                                  InfLine(Some(<<1280, 720>>), None), UriLine(RelUri),
                                  InfLine(Some(<<512, 288>>), Some("380")), UriLine(AbsUri)>>]}

SegRel == <<"s1.ts">>
SegAbs == <<"https:", "/", "/", "cdn", "/", "v", "/", "s2.ts">>

PlaylistLines == {CommentLine, BlankLine, UriLine(SegRel), UriLine(SegAbs)}

\* bodies of an ok variant-playlist fetch
PlaylistBodies ==
    {[kind |-> "bodyerr", text |-> <<>>]}
    \cup {[kind |-> "text", text |-> ls] : ls \in SeqUpTo(PlaylistLines, MaxPlLines)}

\* a fetch that is not ok: it rejects, or it is answered with a non-success status
FailKinds == {"neterr", "nonok"}

\* lines 65-69, 81, 97 and 114: the retries argument of each fetchOk call
Retries(what) ==
    CASE what = "meta" -> 2
      [] what = "master" -> 5
      [] what = "variant" -> 3
      [] what = "direct" -> 3

\* if (videoId), if (encodedTitle), if (encodedUrl): the parameter is there
\* (a parameter of the model is never the empty text)
Supplied(o) == o # None

\* lines 131-134: q || quality || "auto"
QualityParam ==
    IF d_q # None THEN Val(d_q)
    ELSE IF d_quality # None THEN Val(d_quality)
    ELSE "auto"

\* Buffer.from(x, "base64url").toString()
FromB64Url(x) == x[2]

\* ---- the handler: resolving the segment list ----

DlInit ==
    /\ d_pc = "start"
    /\ d_id \in IdParams
    /\ d_u \in UParams
    /\ d_t \in TParams
    /\ \E p \in QualityParams : d_q = p[1] /\ d_quality = p[2]
    /\ d_title = DefaultTitle
    /\ d_meta = NoMeta
    /\ d_try = 0
    /\ d_waits = <<>>
    /\ d_answer = "none"
    /\ d_calls = <<>>
    /\ d_tried = <<>>
    /\ d_variantUrl = <<>>
    /\ d_segments = <<>>
    /\ d_status = 0
    /\ d_body = {}
    /\ d_filename = <<>>
    /\ d_type = ""
    /\ d_i = 0
    /\ d_inflight = {}
    /\ d_read = 0
    /\ d_res = <<>>
    /\ d_out = <<>>
    /\ d_started = <<>>
    /\ d_closed = 0
    /\ d_cancel = "no"

DlIdle ==
    /\ d_pc = "idle"
    /\ d_id = None
    /\ d_u = None
    /\ d_t = None
    /\ d_q = None
    /\ d_quality = None
    /\ d_title = DefaultTitle
    /\ d_meta = NoMeta
    /\ d_try = 0
    /\ d_waits = <<>>
    /\ d_answer = "none"
    /\ d_calls = <<>>
    /\ d_tried = <<>>
    /\ d_variantUrl = <<>>
    /\ d_segments = <<>>
    /\ d_status = 0
    /\ d_body = {}
    /\ d_filename = <<>>
    /\ d_type = ""
    /\ d_i = 0
    /\ d_inflight = {}
    /\ d_read = 0
    /\ d_res = <<>>
    /\ d_out = <<>>
    /\ d_started = <<>>
    /\ d_closed = 0
    /\ d_cancel = "no"

\* the handler goes on to the first attempt of the fetchOk call `what`
GotoFetch(what, url, tried) ==
    /\ d_pc' = what
    /\ d_try' = 0
    /\ d_waits' = <<>>
    /\ d_tried' = tried
    /\ d_variantUrl' = url
    /\ UNCHANGED <<d_segments, d_status, d_body>>

\* lines 171-180: the 502 answer
Fail502 ==
    /\ d_pc' = "failed"
    /\ d_try' = 0
    /\ d_waits' = <<>>
    /\ d_status' = 502
    /\ d_body' = {"error", "tip"}
    /\ UNCHANGED <<d_tried, d_variantUrl, d_segments>>

\* an exception leaves GET: the framework answers 500
Crash500 ==
    /\ d_pc' = "crashed"
    /\ d_try' = 0
    /\ d_waits' = <<>>
    /\ d_status' = 500
    /\ d_body' = {}
    /\ UNCHANGED <<d_tried, d_variantUrl, d_segments>>

\* a strategy returned a segment list that is not empty
SegmentsKnown(segments) ==
    /\ d_pc' = "known"
    /\ d_try' = 0
    /\ d_waits' = <<>>
    /\ d_segments' = segments
    /\ UNCHANGED <<d_tried, d_variantUrl, d_status, d_body>>

\* (mutant) Strategy B is never tried after Strategy A
StrategyANull_NoFallback == Fail502

\* lines 153-171 once resolveVariantAndSegments returned null: Strategy B when
\* u was supplied, else the 502 answer
StrategyANull ==
    IF Supplied(d_u)
    THEN GotoFetch("direct", FromB64Url(Val(d_u)), Append(d_tried, "B"))
    ELSE Fail502

\* (mutant) Strategy A is entered without if (videoId)
DlStart_AlwaysA ==
    /\ d_pc = "start"
    /\ GotoFetch("meta", <<>>, <<"A">>)
    /\ d_title' = IF Supplied(d_t) THEN FromB64Url(Val(d_t)) ELSE DefaultTitle
    /\ UNCHANGED <<d_meta, d_answer, d_calls, d_filename, d_type>>
    /\ UNCHANGED <<dlReq, dlStream>>
    /\ UNCHANGED <<searchVars, parseVars, videoVars, refVars, pageVars, ccVars, segVars>>

\* lines 129-165, up to the first fetch: the title of t, then Strategy A when
\* id was supplied, else Strategy B when u was supplied, else the 502 answer
DlStart ==
    /\ d_pc = "start"
    /\ IF Supplied(d_id)
       THEN GotoFetch("meta", <<>>, <<"A">>)
       ELSE IF Supplied(d_u)
       THEN GotoFetch("direct", FromB64Url(Val(d_u)), <<"B">>)
       ELSE Fail502
    /\ d_title' = IF Supplied(d_t) THEN FromB64Url(Val(d_t)) ELSE DefaultTitle
    /\ UNCHANGED <<d_meta, d_answer, d_calls, d_filename, d_type>>
    /\ UNCHANGED <<dlReq, dlStream>>
    /\ UNCHANGED <<searchVars, parseVars, videoVars, refVars, pageVars, ccVars, segVars>>

\* (mutant) i <= retries: one attempt more than asked for
FetchOkFail_OneMore(what, onNull) ==
    /\ d_pc = what
    /\ \E kind \in FailKinds : d_answer' = kind
    /\ IF d_try + 1 <= Retries(what)
       THEN /\ d_try' = d_try + 1
            /\ d_waits' = Append(d_waits, 1000 * (d_try + 1))
            /\ UNCHANGED <<d_pc, d_tried, d_variantUrl, d_segments, d_status, d_body,
                           d_calls>>
       ELSE /\ d_calls' = Append(d_calls, [what |-> what, ok |-> FALSE])
            /\ onNull
    /\ UNCHANGED <<d_title, d_meta, d_filename, d_type>>
    /\ UNCHANGED <<dlReq, dlStream>>
    /\ UNCHANGED <<searchVars, parseVars, videoVars, refVars, pageVars, ccVars, segVars>>

\* lines 44-54: one attempt of fetchOk that is not ok.  With an attempt left
\* the call waits 1000 * (i + 1) ms and tries again; after the last attempt it
\* returns null, and `onNull` is what the handler does next.
FetchOkFail(what, onNull) ==
    /\ d_pc = what
    /\ \E kind \in FailKinds : d_answer' = kind
    /\ IF d_try + 1 < Retries(what)
       THEN /\ d_try' = d_try + 1
            /\ d_waits' = Append(d_waits, 1000 * (d_try + 1))
            /\ UNCHANGED <<d_pc, d_tried, d_variantUrl, d_segments, d_status, d_body,
                           d_calls>>
       ELSE /\ d_calls' = Append(d_calls, [what |-> what, ok |-> FALSE])
            /\ onNull
    /\ UNCHANGED <<d_title, d_meta, d_filename, d_type>>
    /\ UNCHANGED <<dlReq, dlStream>>
    /\ UNCHANGED <<searchVars, parseVars, videoVars, refVars, pageVars, ccVars, segVars>>

\* line 70: if (!metaResp) return null
DlMetaFail == FetchOkFail("meta", StrategyANull)

\* (mutant) Strategy A goes on to a variant playlist without a master manifest
DlMasterFail_GoesOn == FetchOkFail("master", GotoFetch("variant", DirectUrl, d_tried))

\* line 82: if (!m3u8Resp) return null
DlMasterFail == FetchOkFail("master", StrategyANull)

\* line 98: if (!varResp) return null
DlVariantFail == FetchOkFail("variant", StrategyANull)

\* line 115 and 171: Strategy B returns null, the 502 answer
DlDirectFail == FetchOkFail("direct", Fail502)

\* lines 65-81: an ok answer to the metadata fetch.  A body that is no JSON
\* makes metaResp.json() throw, and nothing in GET catches it.
DlMetaOk ==
    /\ d_pc = "meta"
    /\ \E body \in MetaBodies :
         /\ d_meta' = body
         /\ IF body.kind = "badjson" THEN Crash500
            ELSE IF body.m3u8Url = None THEN StrategyANull
            ELSE GotoFetch("master", <<>>, d_tried)
    /\ d_answer' = "ok"
    /\ d_calls' = Append(d_calls, [what |-> "meta", ok |-> TRUE])
    /\ UNCHANGED <<d_title, d_filename, d_type>>
    /\ UNCHANGED <<dlReq, dlStream>>
    /\ UNCHANGED <<searchVars, parseVars, videoVars, refVars, pageVars, ccVars, segVars>>

\* lines 81-97: an ok answer to the master-manifest fetch; the variant of the
\* requested quality is fetched next
DlMasterOk ==
    /\ d_pc = "master"
    /\ \E body \in MasterBodies :
         IF body.kind = "bodyerr" THEN Crash500
         ELSE IF ~HasExtM3U(body.text) THEN StrategyANull
         ELSE LET variants == parseM3u8VariantsDl(body.text,
                                                  BaseUrlOf(Val(d_meta.m3u8Url)))
              IN  IF variants = <<>> THEN StrategyANull
                  ELSE GotoFetch("variant", VariantUrlFor(variants, QualityParam),
                                 d_tried)
    /\ d_answer' = "ok"
    /\ d_calls' = Append(d_calls, [what |-> "master", ok |-> TRUE])
    /\ UNCHANGED <<d_title, d_meta, d_filename, d_type>>
    /\ UNCHANGED <<dlReq, dlStream>>
    /\ UNCHANGED <<searchVars, parseVars, videoVars, refVars, pageVars, ccVars, segVars>>

\* lines 97-108 and 153-157: an ok answer to the variant-playlist fetch of
\* Strategy A; with segments the title of the metadata replaces "video"
DlVariantOk ==
    /\ d_pc = "variant"
    /\ \E body \in PlaylistBodies :
         IF body.kind = "bodyerr"
         THEN Crash500 /\ UNCHANGED d_title
         ELSE LET segments == SegmentsOfA(body.text, d_variantUrl)
              IN  IF segments = <<>>
                  THEN StrategyANull /\ UNCHANGED d_title
                  ELSE /\ SegmentsKnown(segments)
                       /\ d_title' = IF d_title = DefaultTitle
                                     THEN ResolvedTitle(d_meta.title)
                                     ELSE d_title
    /\ d_answer' = "ok"
    /\ d_calls' = Append(d_calls, [what |-> "variant", ok |-> TRUE])
    /\ UNCHANGED <<d_meta, d_filename, d_type>>
    /\ UNCHANGED <<dlReq, dlStream>>
    /\ UNCHANGED <<searchVars, parseVars, videoVars, refVars, pageVars, ccVars, segVars>>

\* lines 114-125 and 161-180: an ok answer to the playlist fetch of Strategy
\* B; a body that cannot be read is caught at line 166
DlDirectOk ==
    /\ d_pc = "direct"
    /\ \E body \in PlaylistBodies :
         IF body.kind = "bodyerr" THEN Fail502
         ELSE LET segments == SegmentsOfB(body.text, d_variantUrl)
              IN  IF segments = <<>> THEN Fail502
                  ELSE SegmentsKnown(segments)
    /\ d_answer' = "ok"
    /\ d_calls' = Append(d_calls, [what |-> "direct", ok |-> TRUE])
    /\ UNCHANGED <<d_title, d_meta, d_filename, d_type>>
    /\ UNCHANGED <<dlReq, dlStream>>
    /\ UNCHANGED <<searchVars, parseVars, videoVars, refVars, pageVars, ccVars, segVars>>

\* ---- the handler: streaming the segments ----
\* The bytes of segment i are the chunks <<i, 1>> .. <<i, MaxChunks>>.
\* d_res[i] tells how the loop left segment i: "none" (not yet), "neterr"
\* (fetch rejected), "nonok", "nobody", "readerr" (reader.read() rejected),
\* "enqerr" (controller.enqueue threw), "done" (body read to its end).

\* line 214: `${title} ${qualityParam}p.ts`
FileName(title, quality) == title \o <<" ", quality, "p.ts">>

\* (mutant) the handler gives up although the segment list is known
DlRespond_GivesUp ==
    /\ d_pc = "known"
    /\ d_pc' = "failed"
    /\ d_status' = 502
    /\ d_body' = {"error", "tip"}
    /\ UNCHANGED <<d_title, d_meta, d_try, d_waits, d_answer, d_calls, d_tried,
                   d_variantUrl, d_segments, d_filename, d_type>>
    /\ UNCHANGED <<dlReq, dlStream>>
    /\ UNCHANGED <<searchVars, parseVars, videoVars, refVars, pageVars, ccVars, segVars>>

\* lines 187-222: the stream is constructed, which runs start() up to the
\* fetch of the first segment, then the Response with its headers
DlRespond ==
    /\ d_pc = "known"
    /\ d_i' = 1
    /\ d_started' = <<1>>
    /\ d_inflight' = {1}
    /\ d_res' = [i \in 1..Len(d_segments) |-> "none"]
    /\ d_filename' = FileName(d_title, QualityParam)
    /\ IF IsByteString(FileName(d_title, QualityParam))
       THEN /\ d_status' = 200
            /\ d_type' = "video/mp2t"
            /\ d_pc' = "answer"
       ELSE /\ d_status' = 500
            /\ d_pc' = "crashed"
            /\ UNCHANGED d_type
    /\ UNCHANGED <<d_title, d_meta, d_try, d_waits, d_answer, d_calls, d_tried,
                   d_variantUrl, d_segments, d_body>>
    /\ UNCHANGED <<d_read, d_out, d_closed, d_cancel>>
    /\ UNCHANGED dlReq
    /\ UNCHANGED <<searchVars, parseVars, videoVars, refVars, pageVars, ccVars, segVars>>

\* (mutant) the fetch of the next segment is issued while the response of the
\* current one is still open
Advance_Overlapping(res, inflight) ==
    /\ d_res' = res
    /\ d_read' = 0
    /\ IF d_i < Len(d_segments)
       THEN /\ d_i' = d_i + 1
            /\ d_started' = Append(d_started, d_i + 1)
            /\ d_inflight' = d_inflight \cup {d_i + 1}
            /\ d_pc' = "answer"
            /\ UNCHANGED d_closed
       ELSE /\ d_pc' = IF d_cancel = "closed" THEN "aborted" ELSE "done"
            /\ d_closed' = IF d_cancel = "closed" THEN d_closed ELSE d_closed + 1
            /\ d_inflight' = inflight
            /\ UNCHANGED <<d_i, d_started>>

\* (mutant) start() returns after the last segment without closing the stream
Advance_NoClose(res, inflight) ==
    /\ d_res' = res
    /\ d_read' = 0
    /\ IF d_i < Len(d_segments)
       THEN /\ d_i' = d_i + 1
            /\ d_started' = Append(d_started, d_i + 1)
            /\ d_inflight' = inflight \cup {d_i + 1}
            /\ d_pc' = "answer"
            /\ UNCHANGED d_closed
       ELSE /\ d_pc' = "aborted"
            /\ d_inflight' = inflight
            /\ UNCHANGED <<d_i, d_started, d_closed>>

\* (mutant) a segment whose fetch failed is fetched a second time
Advance_RetryFailed(res, inflight) ==
    /\ d_res' = res
    /\ d_read' = 0
    /\ IF res[d_i] \in {"neterr", "nonok"} /\ Count(d_started, d_i) < 2
       THEN /\ d_started' = Append(d_started, d_i)
            /\ d_inflight' = inflight \cup {d_i}
            /\ d_pc' = "answer"
            /\ UNCHANGED <<d_i, d_closed>>
       ELSE IF d_i < Len(d_segments)
       THEN /\ d_i' = d_i + 1
            /\ d_started' = Append(d_started, d_i + 1)
            /\ d_inflight' = inflight \cup {d_i + 1}
            /\ d_pc' = "answer"
            /\ UNCHANGED d_closed
       ELSE /\ d_pc' = IF d_cancel = "closed" THEN "aborted" ELSE "done"
            /\ d_closed' = IF d_cancel = "closed" THEN d_closed ELSE d_closed + 1
            /\ d_inflight' = inflight
            /\ UNCHANGED <<d_i, d_started>>

\* the loop leaves segment d_i: the fetch of the next segment (line 192), or
\* after the last segment controller.close() (line 210), which throws when
\* the stream was closed by a cancel
Advance(res, inflight) ==
    /\ d_res' = res
    /\ d_read' = 0
    /\ IF d_i < Len(d_segments)
       THEN /\ d_i' = d_i + 1
            /\ d_started' = Append(d_started, d_i + 1)
            /\ d_inflight' = inflight \cup {d_i + 1}
            /\ d_pc' = "answer"
            /\ UNCHANGED d_closed
       ELSE /\ d_pc' = IF d_cancel = "closed" THEN "aborted" ELSE "done"
            /\ d_closed' = IF d_cancel = "closed" THEN d_closed ELSE d_closed + 1
            /\ d_inflight' = inflight
            /\ UNCHANGED <<d_i, d_started>>

SegAnswers == {"neterr", "nonok", "nobody", "ok"}

\* (mutant) the first segment that fails ends the transfer
DlSegAnswer_StopsAtFailure ==
    /\ d_pc = "answer"
    /\ \E kind \in SegAnswers :
         IF kind = "ok"
         THEN /\ d_pc' = "read"
              /\ d_read' = 0
              /\ UNCHANGED <<d_i, d_inflight, d_res, d_started, d_closed>>
         ELSE /\ d_res' = [d_res EXCEPT ![d_i] = kind]
              /\ d_inflight' = d_inflight \ {d_i}
              /\ d_pc' = "done"
              /\ d_closed' = d_closed + 1
              /\ UNCHANGED <<d_i, d_read, d_started>>
    /\ UNCHANGED <<d_out, d_cancel>>
    /\ UNCHANGED <<dlReq, d_title, d_meta, d_try, d_waits, d_answer, d_calls, d_tried,
                   d_variantUrl, d_segments, dlResp>>
    /\ UNCHANGED <<searchVars, parseVars, videoVars, refVars, pageVars, ccVars, segVars>>

\* lines 192-200: the answer to the fetch of segment d_i.  A rejected fetch,
\* a non-success status and a missing body are logged and skipped.
DlSegAnswer ==
    /\ d_pc = "answer"
    /\ \E kind \in SegAnswers :
         IF kind = "ok"
         THEN /\ d_pc' = "read"
              /\ d_read' = 0
              /\ UNCHANGED <<d_i, d_inflight, d_res, d_started, d_closed>>
         ELSE Advance([d_res EXCEPT ![d_i] = kind], d_inflight \ {d_i})
    /\ UNCHANGED <<d_out, d_cancel>>
    /\ UNCHANGED <<dlReq, d_title, d_meta, d_try, d_waits, d_answer, d_calls, d_tried,
                   d_variantUrl, d_segments, dlResp>>
    /\ UNCHANGED <<searchVars, parseVars, videoVars, refVars, pageVars, ccVars, segVars>>

\* lines 201-208: one reader.read() of the body of segment d_i.  A chunk is
\* enqueued at once; the end of the body ends the inner loop; a rejected read,
\* or an enqueue that throws, is caught and the loop goes to the next segment.
DlSegRead ==
    /\ d_pc = "read"
    /\ \E outcome \in {"data", "error"} :
         IF outcome = "error"
         THEN /\ Advance([d_res EXCEPT ![d_i] = "readerr"], d_inflight \ {d_i})
              /\ UNCHANGED d_out
         ELSE IF d_read = MaxChunks
         THEN /\ Advance([d_res EXCEPT ![d_i] = "done"], d_inflight \ {d_i})
              /\ UNCHANGED d_out
         ELSE IF d_cancel = "closed"
         THEN /\ Advance([d_res EXCEPT ![d_i] = "enqerr"], d_inflight)
              /\ UNCHANGED d_out
         ELSE /\ d_out' = Append(d_out, <<d_i, d_read + 1>>)
              /\ d_read' = d_read + 1
              /\ UNCHANGED <<d_pc, d_i, d_inflight, d_res, d_started, d_closed>>
    /\ UNCHANGED d_cancel
    /\ UNCHANGED <<dlReq, d_title, d_meta, d_try, d_waits, d_answer, d_calls, d_tried,
                   d_variantUrl, d_segments, dlResp>>
    /\ UNCHANGED <<searchVars, parseVars, videoVars, refVars, pageVars, ccVars, segVars>>

\* The client goes away while the segments are streamed.  The stream has no
\* cancel callback and no fetch carries an abort signal: the runtime either
\* cancels the stream, which closes it, or only stops reading it.
ClientCancel ==
    /\ d_pc \in {"answer", "read"}
    /\ d_cancel = "no"
    /\ \E c \in {"closed", "ignored"} : d_cancel' = c
    /\ UNCHANGED <<d_i, d_inflight, d_read, d_res, d_out, d_started, d_closed>>
    /\ UNCHANGED <<dlReq, dlRes, dlResp>>
    /\ UNCHANGED <<searchVars, parseVars, videoVars, refVars, pageVars, ccVars, segVars>>

\* An upstream that accepts the request and never answers it, or stops in the
\* middle of a body.  fetch is called with { headers, cache } only (lines 46
\* and 192): no signal, no timer, so nothing in the handler ends the await.
DlUpstreamHangs ==
    /\ d_pc \in {"meta", "master", "variant", "direct", "answer", "read"}
    /\ d_pc' = "hung"
    /\ UNCHANGED <<d_title, d_meta, d_try, d_waits, d_answer, d_calls, d_tried,
                   d_variantUrl, d_segments>>
    /\ UNCHANGED <<dlReq, dlResp, dlStream>>
    /\ UNCHANGED <<searchVars, parseVars, videoVars, refVars, pageVars, ccVars, segVars>>

ResolveNext ==
    \/ DlStart
    \/ DlMetaFail \/ DlMetaOk
    \/ DlMasterFail \/ DlMasterOk
    \/ DlVariantFail \/ DlVariantOk
    \/ DlDirectFail \/ DlDirectOk

StreamNext == DlRespond \/ DlSegAnswer \/ DlSegRead

DownloadNext == ResolveNext \/ StreamNext

\* ---- the streaming of a segment list that is known ----

MaxSegs == 3      \* segments of the list

SegmentUrls == {SegAbs, BaseUrlOf(DirectUrl) \o <<"/">> \o SegRel}

\* the state in which Strategy B has just returned its segments
StreamInit ==
    /\ d_pc = "known"
    /\ d_id = None
    /\ d_u = Some(B64Url(DirectUrl))
    /\ d_t \in TParams
    /\ d_q = Some("720")
    /\ d_quality = None
    /\ d_title = (IF Supplied(d_t) THEN FromB64Url(Val(d_t)) ELSE DefaultTitle)
    /\ d_meta = NoMeta
    /\ d_try = 0
    /\ d_waits = <<>>
    /\ d_answer = "ok"
    /\ d_calls = <<[what |-> "direct", ok |-> TRUE]>>
    /\ d_tried = <<"B">>
    /\ d_variantUrl = DirectUrl
    /\ d_segments \in (SeqUpTo(SegmentUrls, MaxSegs) \ {<<>>})
    /\ d_status = 0
    /\ d_body = {}
    /\ d_filename = <<>>
    /\ d_type = ""
    /\ d_i = 0
    /\ d_inflight = {}
    /\ d_read = 0
    /\ d_res = <<>>
    /\ d_out = <<>>
    /\ d_started = <<>>
    /\ d_closed = 0
    /\ d_cancel = "no"

-----------------------------------------------------------------------------
(* The page: the search form, the result cards and the download panel       *)

MaxSubmits == 2     \* submissions of the search form in one visit
MaxClicks == 1      \* clicks on a result card or on the close button
MaxPgResults == 1   \* candidates in one answer of /api/search

\* the flag i of DM_URL_RE and DM_SHORT_RE: letters match in either case
PgLower(a) ==
    CASE a = "DAILYMOTION.COM" -> "dailymotion.com"
      [] a = "VIDEO" -> "video"
      [] a = "DAI.LY" -> "dai.ly"
      [] OTHER -> a

\* DM_URL_RE matches s with "dailymotion.com" at position i; the optional
\* scheme and "www." ahead of it never decide whether or what it captures
DmUrlAt(s, i) ==
    /\ i + 4 <= Len(s)
    /\ PgLower(s[i]) = "dailymotion.com"
    /\ s[i + 1] = "/"
    /\ PgLower(s[i + 2]) = "video"
    /\ s[i + 3] = "/"
    /\ s[i + 4] \in Alnum

\* DM_SHORT_RE matches s with "dai.ly" at position i
DmShortAt(s, i) ==
    /\ i + 2 <= Len(s)
    /\ PgLower(s[i]) = "dai.ly"
    /\ s[i + 1] = "/"
    /\ s[i + 2] \in Alnum

\* (mutant) a short link is returned as the link that was typed
isDailyMotionUrl_ShortAsTyped(input) ==
    LET at1 == {i \in 1..Len(input) : DmUrlAt(input, i)}
        at2 == {i \in 1..Len(input) : DmShortAt(input, i)}
        m1 == CHOOSE i \in at1 : \A j \in at1 : i <= j
        m2 == CHOOSE i \in at2 : \A j \in at2 : i <= j
    IN  IF at1 # {}
        THEN Some(WatchUrl(SubSeq(input, m1 + 4, AlnumRunEnd(input, m1 + 4))))
        ELSE IF at2 # {}
             THEN Some(<<"https:", "/", "/">>
                         \o SubSeq(input, m2, AlnumRunEnd(input, m2 + 2)))
             ELSE None

\* the function isDailyMotionUrl: the canonical watch URL, or None for null
isDailyMotionUrl(input) ==
    LET at1 == {i \in 1..Len(input) : DmUrlAt(input, i)}
        at2 == {i \in 1..Len(input) : DmShortAt(input, i)}
        m1 == CHOOSE i \in at1 : \A j \in at1 : i <= j
        m2 == CHOOSE i \in at2 : \A j \in at2 : i <= j
    IN  IF at1 # {}
        THEN Some(WatchUrl(SubSeq(input, m1 + 4, AlnumRunEnd(input, m1 + 4))))
        ELSE IF at2 # {}
             THEN Some(WatchUrl(SubSeq(input, m2 + 2, AlnumRunEnd(input, m2 + 2))))
             ELSE None

\* the texts typed into the search box
PgQueries ==
    { <<>>,
      <<" ">>,
      <<"k">>,
      WatchUrl(<<"x", "2">>),
      <<" ", "dai.ly", "/", "y", " ">>,
      <<"DAILYMOTION.COM", "/", "VIDEO", "/", "K">>,
      <<"k", " ", "dai.ly", "/", "x">>,
      <<"dai.ly", "/">>,
      <<"dailymotion.com", "/", "playlist", "/", "x">>,
      <<"dai.ly", "/", "y", " ", "dailymotion.com", "/", "video", "/", "x">> }

\* the candidates /api/search may return
PgCandidates ==
    { [title |-> "Vincenzo Ep 1", url |-> WatchUrl(<<"x", "2">>)],
      [title |-> "Vincenzo Ep 2", url |-> WatchUrl(<<"y">>)] }

\* the pseudoResult of the direct-URL path
PseudoResult(dmUrl) == [title |-> "Loading video...", url |-> dmUrl]

\* what the page gets for a request: a 2xx answer with its JSON, another
\* status, or a rejected promise (transport error, timeout, no JSON)
PgSearchAnswers ==
    {[kind |-> "ok", list |-> l] : l \in SeqUpTo(PgCandidates, MaxPgResults)}
        \cup {[kind |-> "nonok", list |-> <<>>], [kind |-> "error", list |-> <<>>]}
PgVideoAnswers == {"ok", "nonok", "error"}

PgRequest(api, arg) == [n |-> Len(g_sent) + 1, api |-> api, arg |-> arg]

PgIdle ==
    /\ g_submitted = <<>>
    /\ g_clicks = 0
    /\ g_results = <<>>
    /\ g_loading = FALSE
    /\ g_loadingSets = 0
    /\ g_error = ""
    /\ g_selected = None
    /\ g_videoInfo = None
    /\ g_loadingVideo = FALSE
    /\ g_pending = {}
    /\ g_sent = <<>>

\* the page as first rendered
PgInit == PgIdle

\* handleSelect up to its await: the panel opens and /api/video is asked
handleSelect(result) ==
    /\ g_selected' = Some(result)
    /\ g_videoInfo' = None
    /\ g_loadingVideo' = TRUE
    /\ g_pending' = g_pending \cup {PgRequest("video", result.url)}
    /\ g_sent' = Append(g_sent, [api |-> "video", arg |-> result.url])

\* handleSearch without the return of the direct-URL path: the search is
\* started after the panel was opened
PgSubmit_NoReturn ==
    /\ ~g_loading
    /\ Len(g_submitted) < MaxSubmits
    /\ \E query \in PgQueries :
         LET trimmed == Trim(query)
             dmUrl == isDailyMotionUrl(trimmed)
             asked == IF IsSome(dmUrl)
                      THEN <<[api |-> "video", arg |-> Val(dmUrl)],
                             [api |-> "search", arg |-> trimmed]>>
                      ELSE <<[api |-> "search", arg |-> trimmed]>>
         IN  /\ g_submitted' = Append(g_submitted, query)
             /\ IF trimmed = <<>>
                THEN UNCHANGED <<g_results, g_loading, g_loadingSets, g_error,
                                 g_selected, g_videoInfo, g_loadingVideo,
                                 g_pending, g_sent>>
                ELSE /\ g_loading' = TRUE
                     /\ g_loadingSets' = g_loadingSets + 1
                     /\ g_error' = ""
                     /\ g_results' = <<>>
                     /\ g_selected' = None
                     /\ g_videoInfo' = None
                     /\ g_loadingVideo' = (g_loadingVideo \/ IsSome(dmUrl))
                     /\ g_pending' = g_pending \cup
                            {[n |-> Len(g_sent) + k, api |-> asked[k].api,
                              arg |-> asked[k].arg] : k \in 1..Len(asked)}
                     /\ g_sent' = g_sent \o asked
    /\ UNCHANGED g_clicks
    /\ UNCHANGED <<searchVars, parseVars, videoVars, refVars, dlVars, ccVars, segVars>>

\* handleSearch up to its first await. The submit button is disabled while
\* loading, so the form is not submitted then.
PgSubmit ==
    /\ ~g_loading
    /\ Len(g_submitted) < MaxSubmits
    /\ \E query \in PgQueries :
         LET trimmed == Trim(query)
             dmUrl == isDailyMotionUrl(trimmed)
         IN  /\ g_submitted' = Append(g_submitted, query)
             /\ IF trimmed = <<>>
                THEN UNCHANGED <<g_results, g_loading, g_loadingSets, g_error,
                                 g_selected, g_videoInfo, g_loadingVideo,
                                 g_pending, g_sent>>
                ELSE IF IsSome(dmUrl)
                THEN /\ g_results' = <<>>
                     /\ g_error' = ""
                     /\ handleSelect(PseudoResult(Val(dmUrl)))
                     /\ UNCHANGED <<g_loading, g_loadingSets>>
                ELSE /\ g_loading' = TRUE
                     /\ g_loadingSets' = g_loadingSets + 1
                     /\ g_error' = ""
                     /\ g_results' = <<>>
                     /\ g_selected' = None
                     /\ g_videoInfo' = None
                     /\ g_pending' = g_pending \cup {PgRequest("search", trimmed)}
                     /\ g_sent' = Append(g_sent, [api |-> "search", arg |-> trimmed])
                     /\ UNCHANGED g_loadingVideo
    /\ UNCHANGED g_clicks
    /\ UNCHANGED <<searchVars, parseVars, videoVars, refVars, dlVars, ccVars, segVars>>

\* the rest of handleSearch: the answer of /api/search arrives
PgSearchDone ==
    /\ \E r \in g_pending, ans \in PgSearchAnswers :
         /\ r.api = "search"
         /\ g_pending' = g_pending \ {r}
         /\ CASE ans.kind = "ok" ->
                   /\ g_results' = ans.list
                   /\ g_error' = (IF ans.list = <<>>
                                  THEN "No results found. Try a different drama name."
                                  ELSE g_error)
              [] ans.kind = "nonok" ->
                   /\ g_error' = "Search failed: Search failed"
                   /\ UNCHANGED g_results
              [] OTHER ->
                   /\ g_error' = "Search failed: (the message of the error)"
                   /\ UNCHANGED g_results
    /\ g_loading' = FALSE
    /\ UNCHANGED <<g_submitted, g_clicks, g_loadingSets, g_selected, g_videoInfo,
                   g_loadingVideo, g_sent>>
    /\ UNCHANGED <<searchVars, parseVars, videoVars, refVars, dlVars, ccVars, segVars>>

\* a click on a result card; the cards are shown while not loading
PgSelect ==
    /\ ~g_loading
    /\ g_results # <<>>
    /\ g_clicks < MaxClicks
    /\ \E k \in 1..Len(g_results) : handleSelect(g_results[k])
    /\ g_clicks' = g_clicks + 1
    /\ UNCHANGED <<g_submitted, g_results, g_loading, g_loadingSets, g_error>>
    /\ UNCHANGED <<searchVars, parseVars, videoVars, refVars, dlVars, ccVars, segVars>>

\* the rest of handleSelect: the answer of /api/video arrives
PgVideoDone ==
    /\ \E r \in g_pending, ans \in PgVideoAnswers :
         /\ r.api = "video"
         /\ g_pending' = g_pending \ {r}
         /\ g_videoInfo' = (IF ans = "ok" THEN Some([of |-> r.arg]) ELSE None)
    /\ g_loadingVideo' = FALSE
    /\ UNCHANGED <<g_submitted, g_clicks, g_results, g_loading, g_loadingSets,
                   g_error, g_selected, g_sent>>
    /\ UNCHANGED <<searchVars, parseVars, videoVars, refVars, dlVars, ccVars, segVars>>

\* a click on the close button of the download panel
PgClose ==
    /\ IsSome(g_selected)
    /\ g_clicks < MaxClicks
    /\ g_selected' = None
    /\ g_videoInfo' = None
    /\ g_clicks' = g_clicks + 1
    /\ UNCHANGED <<g_submitted, g_results, g_loading, g_loadingSets, g_error,
                   g_loadingVideo, g_pending, g_sent>>
    /\ UNCHANGED <<searchVars, parseVars, videoVars, refVars, dlVars, ccVars, segVars>>

PageNext == PgSubmit \/ PgSearchDone \/ PgSelect \/ PgVideoDone \/ PgClose

-----------------------------------------------------------------------------
(* Two invocations of the route handlers in one process.  An invocation     *)
(* runs from one await to the next without interruption; at an await the    *)
(* other invocation may run.  What an invocation holds across an await are  *)
(* the constants of its closure: its parameters and the answers its         *)
(* fetches have returned.                                                   *)

Reqs == {1, 2}

Other(i) == 3 - i

\* ---- the requests and the answers of the upstream ----

CcPrimary ==
    {a \in PrimaryAnswers :
        \/ a.kind = "neterr"
        \/ a.kind = "list" /\ a.list = <<>>
        \/ a.kind = "list" /\ Len(a.list) = 1 /\ a.list[1].id = <<"x", "2">>}

CcFallback ==
    {a \in FallbackAnswers :
        \/ a.kind = "nonok"
        \/ a.kind = "page" /\ a.html = <<>>
        \/ a.kind = "page" /\ Len(a.html) = 1 /\ a.html[1].kind = "a"}

CcMeta ==
    {a \in MetaAnswers :
        \/ a.kind = "nonok"
        \/ a.kind = "json" /\ a.meta.title = "Vincenzo"
                           /\ a.meta.formats.shape = "absent"}

CcManifest ==
    {a \in ManifestAnswers :
        \/ a.kind = "neterr"
        \/ a.kind = "text" /\ a.header
             /\ a.lines = <<InfLine(Some(<<1280, 720>>), None), UriLine(RelUri)>>}

\* one attempt of the playlist fetch of Strategy B
CcFailed == [kind |-> "nonok", text |-> <<>>]
CcPlaylists ==
    {[kind |-> "text", text |-> <<>>],
     [kind |-> "text", text |-> <<UriLine(SegRel), UriLine(SegAbs)>>]}

\* the answers to the attempts of fetchOk: after the first ok answer no
\* further attempt is made
CcAttempts ==
    {<<CcFailed, CcFailed, CcFailed>>}
    \cup {<<b>> : b \in CcPlaylists}
    \cup {<<CcFailed, b>> : b \in CcPlaylists}
    \cup {<<CcFailed, CcFailed, b>> : b \in CcPlaylists}

\* a request with the answers its fetches will get
CcCalls ==
    {[req |-> [api |-> "search", arg |-> Some(<<" ">>), t |-> None], up |-> <<>>]}
    \cup {[req |-> [api |-> "search", arg |-> Some(<<"k">>), t |-> None],
           up |-> <<p, f>>] : p \in CcPrimary, f \in CcFallback}
    \cup {[req |-> [api |-> "video", arg |-> None, t |-> None], up |-> <<>>]}
    \cup {[req |-> [api |-> "video", arg |-> Some(WatchUrl(<<"x", "2">>)), t |-> None],
           up |-> <<m, f>>] : m \in CcMeta, f \in CcManifest}
    \cup {[req |-> [api |-> "download", arg |-> None, t |-> None], up |-> <<>>]}
    \cup {[req |-> [api |-> "download", arg |-> Some(B64Url(DirectUrl)), t |-> t],
           up |-> a] :
            t \in {None, Some(B64Url(<<"Vincenzo", " ", "E01">>))}, a \in CcAttempts}

NoCall == [api |-> "none", arg |-> None, t |-> None]

\* ---- the handlers as they go from one await to the next ----

\* the handler answers without any fetch: 400 of /api/search (lines 109-115)
\* and of /api/video (lines 61-69); 502 of /api/download without id and u
\* (download/route.ts:139-180).  None when it goes to its first fetch.
BeforeFirstFetch(req) ==
    CASE req.api = "search" ->
           IF QBlank(req.arg) THEN Some([status |-> 400, body |-> <<>>]) ELSE None
      [] req.api = "video" ->
           IF UrlRejected(req.arg) THEN Some([status |-> 400, body |-> <<>>])
           ELSE None
      [] req.api = "download" ->
           IF Supplied(req.arg) THEN None ELSE Some([status |-> 502, body |-> <<>>])

\* search/route.ts:118-136 with the answers got so far: the response, or
\* None when the handler is at its next fetch
SearchAfter(req, got) ==
    IF Len(got) = 1
    THEN LET r == dailymotionApiSearch(got[1])
         IN  IF ~r.threw /\ Len(r.list) > 0
             THEN Some([status |-> 200, body |-> r.list])
             ELSE None
    ELSE LET r == googleSearchDailymotion(got[2])
         IN  Some([status |-> IF r.threw THEN 502 ELSE 200, body |-> r.list])

\* video/route.ts:71-183 with the answers got so far
VideoAfter(req, got) ==
    IF got[1].kind \in {"neterr", "nonok", "badjson"}
    THEN Some([status |-> 502, body |-> <<>>])
    ELSE IF Len(got) = 1 /\ IsSome(got[1].meta.m3u8Url)
    THEN None
    ELSE Some([status |-> 200,
               body |-> StreamsFor(req.arg, got[1],
                                   IF Len(got) = 1 THEN NoManifestAnswer ELSE got[2])])

\* download/route.ts:111-126 and 139-222 for a request with u and without
\* id, with the answers to the attempts of fetchOk got so far; body is the
\* file name of Content-Disposition and the segments that will be streamed
DownloadAfter(req, got) ==
    LET last       == got[Len(got)]
        variantUrl == FromB64Url(Val(req.arg))
        title      == IF Supplied(req.t) THEN FromB64Url(Val(req.t)) ELSE DefaultTitle
        segments   == SegmentsOfB(last.text, variantUrl)
    IN  IF last.kind # "text"
        THEN IF Len(got) < Retries("direct") THEN None
             ELSE Some([status |-> 502, body |-> <<>>])
        ELSE IF segments = <<>>
        THEN Some([status |-> 502, body |-> <<>>])
        ELSE IF IsByteString(FileName(title, "auto"))
        THEN Some([status |-> 200, body |-> <<FileName(title, "auto"), segments>>])
        ELSE Some([status |-> 500, body |-> <<>>])

After(req, got) ==
    CASE req.api = "search" -> SearchAfter(req, got)
      [] req.api = "video" -> VideoAfter(req, got)
      [] req.api = "download" -> DownloadAfter(req, got)

\* (mutant) fetch without cache: "no-store": an answer that the other
\* invocation got for the same fetch is served from the data cache
Delivered_Cached(i, k) ==
    IF c_req[Other(i)] = c_req[i] /\ Len(c_got[Other(i)]) >= k
    THEN c_got[Other(i)][k]
    ELSE c_up[i][k]

\* every fetch of the handlers passes cache: "no-store": the k-th fetch of
\* invocation i returns what the upstream answers to it
Delivered(i, k) == c_up[i][k]

CcIdle ==
    /\ c_req = [i \in Reqs |-> NoCall]
    /\ c_up = [i \in Reqs |-> <<>>]
    /\ c_pc = [i \in Reqs |-> "idle"]
    /\ c_got = [i \in Reqs |-> <<>>]
    /\ c_resp = [i \in Reqs |-> None]
    /\ c_overlap = FALSE

\* two requests have arrived
CcInit ==
    /\ \E a \in CcCalls, b \in CcCalls :
         /\ c_req = [i \in Reqs |-> IF i = 1 THEN a.req ELSE b.req]
         /\ c_up = [i \in Reqs |-> IF i = 1 THEN a.up ELSE b.up]
    /\ c_pc = [i \in Reqs |-> "start"]
    /\ c_got = [i \in Reqs |-> <<>>]
    /\ c_resp = [i \in Reqs |-> None]
    /\ c_overlap = FALSE

\* invocation i goes on to its response, or to its next fetch
CcGoOn(i, resp) ==
    /\ c_resp' = [c_resp EXCEPT ![i] = resp]
    /\ c_pc' = [c_pc EXCEPT ![i] = IF IsSome(resp) THEN "done" ELSE "wait"]
    /\ c_overlap' = (c_overlap \/ (resp = None /\ c_pc[Other(i)] = "wait"))

\* GET up to its first await, or to its response when there is none
CcStart(i) ==
    /\ c_pc[i] = "start"
    /\ CcGoOn(i, BeforeFirstFetch(c_req[i]))
    /\ UNCHANGED <<c_req, c_up, c_got>>
    /\ UNCHANGED <<searchVars, parseVars, videoVars, refVars, dlVars, pageVars, segVars>>

\* a fetch of invocation i returns; GET runs to its next await or to its
\* response
CcAnswer(i) ==
    /\ c_pc[i] = "wait"
    /\ LET got == Append(c_got[i], Delivered(i, Len(c_got[i]) + 1))
       IN  /\ c_got' = [c_got EXCEPT ![i] = got]
           /\ CcGoOn(i, After(c_req[i], got))
    /\ UNCHANGED <<c_req, c_up>>
    /\ UNCHANGED <<searchVars, parseVars, videoVars, refVars, dlVars, pageVars, segVars>>

ConcurrentNext == \E i \in Reqs : CcStart(i) \/ CcAnswer(i)

-----------------------------------------------------------------------------
(* One segment playlist read by both strategies *)

QueryUrl == <<"https:", "/", "/", "cdn", "/", "q", "/", "v.m3u8", "?", "sec=1">>

\* variant URLs: the u parameter, a Rendition of the master manifest, and a
\* URL with a query
SegVariantUrls == {DirectUrl, AbsUri, QueryUrl}

\* lines 108 and 125: segments.length > 0 ? ... : null
SegmentsOrNull(segments) == [null |-> segments = <<>>, segments |-> segments]

SegIdle ==
    /\ l_pc = "idle"
    /\ l_variantUrl = <<>>
    /\ l_text = <<>>
    /\ l_viaA = None
    /\ l_viaB = None

\* both strategies have fetched the same variant URL and read the same text
SegInit ==
    /\ l_pc = "read"
    /\ l_variantUrl \in SegVariantUrls
    /\ l_text \in SeqUpTo(PlaylistLines, MaxPlLines)
    /\ l_viaA = None
    /\ l_viaB = None

\* lines 100-108 of resolveVariantAndSegments
SegViaA ==
    /\ l_pc = "read"
    /\ l_viaA = None
    /\ l_viaA' = Some(SegmentsOrNull(SegmentsOfA(l_text, l_variantUrl)))
    /\ UNCHANGED <<l_pc, l_variantUrl, l_text, l_viaB>>
    /\ UNCHANGED <<searchVars, parseVars, videoVars, refVars, dlVars, pageVars, ccVars>>

\* lines 117-125 of streamFromVariantUrl
SegViaB ==
    /\ l_pc = "read"
    /\ l_viaB = None
    /\ l_viaB' = Some(SegmentsOrNull(SegmentsOfB(l_text, l_variantUrl)))
    /\ UNCHANGED <<l_pc, l_variantUrl, l_text, l_viaA>>
    /\ UNCHANGED <<searchVars, parseVars, videoVars, refVars, dlVars, pageVars, ccVars>>

SegmentsNext == SegViaA \/ SegViaB

-----------------------------------------------------------------------------
(* Specifications: one request to an endpoint, one manifest parsed, or one  *)
(* Rendition handed over                                                    *)

InitSearch == SearchInit /\ ParseIdle /\ VideoIdle /\ RefIdle /\ DlIdle /\ PgIdle /\ CcIdle
    /\ SegIdle
SpecSearch == InitSearch /\ [][SearchNext]_vars

InitParse == SearchIdle /\ ParseInit /\ VideoIdle /\ RefIdle /\ DlIdle /\ PgIdle /\ CcIdle
    /\ SegIdle
SpecParse == InitParse /\ [][ParseNext]_vars

InitVideo == SearchIdle /\ ParseIdle /\ VideoInit /\ RefIdle /\ DlIdle /\ PgIdle /\ CcIdle
    /\ SegIdle
SpecVideo == InitVideo /\ [][VideoNext]_vars

InitRef == SearchIdle /\ ParseIdle /\ VideoIdle /\ RefInit /\ DlIdle /\ PgIdle /\ CcIdle
    /\ SegIdle
SpecRef == InitRef /\ [][RefNext]_vars

\* the variant selection of Strategy A on its own
InitSelect == SearchIdle /\ ParseIdle /\ VideoIdle /\ SelectInit /\ DlIdle /\ PgIdle /\ CcIdle
    /\ SegIdle
SpecSelect == InitSelect /\ [][SelectNext]_vars

InitDownload == SearchIdle /\ ParseIdle /\ VideoIdle /\ RefIdle /\ DlInit /\ PgIdle /\ CcIdle
    /\ SegIdle
SpecDownload == InitDownload /\ [][DownloadNext]_vars

\* one visit of the page
InitPage == SearchIdle /\ ParseIdle /\ VideoIdle /\ RefIdle /\ DlIdle /\ PgInit /\ CcIdle
    /\ SegIdle
SpecPage == InitPage /\ [][PageNext]_vars

\* two requests handled at the same time
InitConcurrent == SearchIdle /\ ParseIdle /\ VideoIdle /\ RefIdle /\ DlIdle /\ PgIdle /\ CcInit
    /\ SegIdle
SpecConcurrent == InitConcurrent /\ [][ConcurrentNext]_vars

\* one segment playlist, its list derived by both strategies
InitSegments == SearchIdle /\ ParseIdle /\ VideoIdle /\ RefIdle /\ DlIdle /\ PgIdle /\ CcIdle
    /\ SegInit
SpecSegments == InitSegments /\ [][SegmentsNext]_vars

\* one download request whose every fetch is answered in the end, with a
\* response or with a failure
FairDownload == InitDownload /\ [][DownloadNext]_vars /\ WF_vars(DownloadNext)

\* one download request with upstreams that may hang; every step the
\* handler can take is taken in the end
HangNext == DownloadNext \/ DlUpstreamHangs
FairHang == InitDownload /\ [][HangNext]_vars /\ WF_vars(HangNext)

\* the streaming phase alone, for longer segment lists
InitStreaming == SearchIdle /\ ParseIdle /\ VideoIdle /\ RefIdle /\ StreamInit /\ PgIdle /\ CcIdle
    /\ SegIdle
SpecStreaming == InitStreaming /\ [][StreamNext]_vars

\* every fetch and every read of a body is answered in the end
FairStreaming == SpecStreaming /\ WF_vars(StreamNext)

\* the streaming phase with a client that may go away
CancelNext == StreamNext \/ ClientCancel
SpecCancel == InitStreaming /\ [][CancelNext]_vars

-----------------------------------------------------------------------------
(* Properties of GET /api/search *)

PrimaryThrew == s_upPrimary.kind \in {"neterr", "nonok", "badjson"}
PrimaryZeroItems == s_upPrimary.kind \in {"nolist", "list"} /\ s_upPrimary.list = <<>>
PrimaryHasItems == s_upPrimary.kind = "list" /\ s_upPrimary.list # <<>>
FallbackThrew == s_upFallback.kind \in {"neterr", "nonok"}

\* C1: when the primary strategy returns at least one item, the request is
\* answered 200 with the mapped items of data.list, in the same order and of the
\* same length, and the fallback strategy is not invoked in the request.
C1_PrimaryListReturned ==
    PrimaryHasItems =>
        /\ s_pc = "done"
        /\ s_status = 200
        /\ Len(s_body) = Len(s_upPrimary.list)
        /\ \A i \in 1..Len(s_body) : s_body[i] = MapItem(s_upPrimary.list[i])
        /\ Count(s_calls, "fallback") = 0
        /\ s_upFallback = NoFallbackAnswer

C1_Witness ==
    /\ s_pc = "done"
    /\ PrimaryHasItems
    /\ Len(s_upPrimary.list) = 2
    /\ s_status = 200
    /\ s_body[1] # s_body[2]

\* C2 as stated: the fallback is invoked exactly once when the primary strategy
\* raised a transport error, got a non-success status or succeeded with zero
\* items, and in no other case.
C2_FallbackOnlyInThreeCases ==
    (s_pc = "done" /\ ~QBlank(s_q)) =>
        Count(s_calls, "fallback") =
            IF s_upPrimary.kind \in {"neterr", "nonok"} \/ PrimaryZeroItems
            THEN 1 ELSE 0

\* C2 (amended): the fallback is invoked exactly once when the primary strategy
\* did not return at least one item: it threw (transport error, non-success
\* status, or a 200 answer whose body is not JSON) or succeeded with zero items;
\* it is not invoked when the primary strategy returned one or more items, nor
\* for a blank query.
C2_FallbackWhenPrimaryYieldsNothing ==
    s_pc = "done" =>
        Count(s_calls, "fallback") =
            IF ~QBlank(s_q) /\ (PrimaryThrew \/ PrimaryZeroItems) THEN 1 ELSE 0

C2_Witness ==
    /\ s_pc = "done"
    /\ s_upPrimary.kind = "badjson"
    /\ s_calls = <<"primary", "fallback">>
    /\ s_status = 200

\* the claim's pattern: http(s)://[www.]dailymotion.com/video/<alphanumeric id>
IsWatchUrl(u) ==
    LET k == IF Len(u) >= 4 /\ u[4] = "www." THEN 5 ELSE 4
    IN  /\ Len(u) >= 3
        /\ u[1] \in {"http:", "https:"}
        /\ u[2] = "/"
        /\ u[3] = "/"
        /\ WatchPatternAt(u, k)
        /\ \A i \in (k + 4)..Len(u) : u[i] \in Alnum

\* C3: the list the fallback strategy returns for a result page holds only
\* candidates whose URL matches the watch-URL pattern, and no URL twice.
C3_FallbackUrlsWatchAndDistinct ==
    s_upFallback.kind = "page" =>
        /\ \A i \in 1..Len(s_body) : IsWatchUrl(s_body[i].url)
        /\ \A i, j \in 1..Len(s_body) : s_body[i].url = s_body[j].url => i = j

\* a page with a link repeated, a link that is no watch URL, and one candidate
C3_Witness ==
    /\ s_upFallback.kind = "page"
    /\ Len(s_body) = 1
    /\ \E i, j \in 1..Len(s_upFallback.html) :
         /\ i < j
         /\ IsSome(LinkCapture(s_upFallback.html[i]))
         /\ LinkCapture(s_upFallback.html[i]) = LinkCapture(s_upFallback.html[j])
    /\ \E i \in 1..Len(s_upFallback.html) :
         /\ s_upFallback.html[i].kind = "a"
         /\ s_upFallback.html[i].redir
         /\ LinkCapture(s_upFallback.html[i]) = None

\* the links of the page that the fallback strategy captures
CapturedLinks ==
    {i \in 1..Len(s_upFallback.html) : IsSome(LinkCapture(s_upFallback.html[i]))}

\* C32: for every result page the fallback strategy returns at most 12
\* candidates, the limit the primary strategy asks the API for, and the
\* title of every candidate has at least 3 characters.
C32_FallbackCappedAndTitled ==
    s_upFallback.kind = "page" =>
        /\ Len(s_body) <= PrimaryLimit
        /\ \A i \in 1..Len(s_body) : Len(s_body[i].title) >= 3

\* a page with 18 links, the first five under a heading of two characters:
\* twelve of the other thirteen are returned
C32_Witness ==
    /\ s_upFallback.kind = "page"
    /\ Cardinality(CapturedLinks) = 18
    /\ s_upFallback.html[1].kind = "h3"
    /\ s_status = 200
    /\ Len(s_body) = 12
    /\ s_body[1].url = WatchUrl(LongId(6))

\* C4 as stated: 400 exactly for a missing or blank q, 502 exactly when both
\* strategies failed, 200 with an array otherwise; a zero-result outcome of a
\* strategy is answered 200 with an empty array, never 502.
C4_StatusTable ==
    s_pc = "done" =>
        /\ s_status = 400 <=> QBlank(s_q)
        /\ s_status = 502 <=> (PrimaryThrew /\ FallbackThrew)
        /\ s_status \in {400, 502, 200}
        /\ PrimaryZeroItems => s_status = 200

-----------------------------------------------------------------------------
(* Properties of GET /api/video *)

\* the url carries dailymotion.com/video/<one or more alphanumerics>
HasVideoIdentifier(url) ==
    \E i \in 1..Len(url) :
        /\ i + 4 <= Len(url)
        /\ <<url[i], url[i + 1], url[i + 2], url[i + 3]>> =
               <<"dailymotion.com", "/", "video", "/">>
        /\ url[i + 4] \in Alnum

UrlMissingOrWithoutId ==
    IF v_url = None THEN TRUE ELSE ~HasVideoIdentifier(Val(v_url))

\* C5: with the url parameter missing or without a Dailymotion video
\* identifier the request is answered 400 and no outbound fetch (metadata or
\* manifest) is ever issued.
C5_BadUrlIs400WithoutFetch ==
    UrlMissingOrWithoutId =>
        /\ v_fetches = <<>>
        /\ v_upMeta = NoMetaAnswer
        /\ v_pc \in {"start", "done"}
        /\ v_pc = "done" => v_status = 400

C5_Witness ==
    /\ v_pc = "done"
    /\ v_status = 400
    /\ v_fetches = <<>>
    /\ v_url # None
    /\ Len(Val(v_url)) > 5
    /\ ~HasVideoIdentifier(Val(v_url))

\* C6: with a parseable identifier, a metadata fetch that rejects or is
\* answered with a non-success status gives 502; the manifest is not fetched
\* and no streams are returned.
C6_MetadataFailureIs502 ==
    v_upMeta.kind \in {"neterr", "nonok"} =>
        /\ v_pc = "done"
        /\ v_status = 502
        /\ v_fetches = <<"meta">>
        /\ v_upManifest = NoManifestAnswer
        /\ v_streams = <<>>

C6_Witness ==
    /\ v_pc = "done"
    /\ v_upMeta.kind = "nonok"
    /\ v_url # None
    /\ HasVideoIdentifier(Val(v_url))
    /\ v_status = 502

\* what the claims say of the streams array
HeightOrZero(st) == IF st.height = None THEN 0 ELSE Val(st.height)

\* the streams of s whose height, null counted as 0, is h
RECURSIVE WithHeightOrZero(_, _)
WithHeightOrZero(s, h) ==
    IF s = <<>> THEN <<>>
    ELSE (IF HeightOrZero(Head(s)) = h THEN <<Head(s)>> ELSE <<>>)
         \o WithHeightOrZero(Tail(s), h)

\* the streams of s whose height is h (None: the streams without a height)
RECURSIVE WithHeight(_, _)
WithHeight(s, h) ==
    IF s = <<>> THEN <<>>
    ELSE (IF Head(s).height = h THEN <<Head(s)>> ELSE <<>>) \o WithHeight(Tail(s), h)

HeightsOf(s) == {s[i].height : i \in 1..Len(s)}

C9_FormatsOnlyWithoutVariants ==
    v_status = 200 =>
        /\ ("formats" \in v_branches) <=> (v_variants = <<>>)
        /\ v_upManifest.kind # "text" => v_variants = <<>>
        /\ (v_upManifest.kind = "text" /\ ~v_upManifest.header) => v_variants = <<>>
        /\ \A i \in 1..Len(v_streams) :
             v_streams[i].src = "formats" =>
                /\ v_streams[i].url.id = v_videoId
                /\ IsSome(v_streams[i].url.quality)
                /\ v_streams[i].url.u = None
        /\ \A i \in 1..Len(v_streams) :
             v_streams[i].src = "manifest" =>
                /\ v_variants # <<>>
                /\ \A j \in 1..Len(v_streams) : v_streams[j].src = "manifest"

\* a manifest with a STREAM-INF line but no variant, and Renditions of stream_formats
C9_Witness ==
    /\ v_status = 200
    /\ v_upManifest.kind = "text"
    /\ v_upManifest.header
    /\ \E i \in 1..Len(v_upManifest.lines) : v_upManifest.lines[i].kind = "inf"
    /\ v_variants = <<>>
    /\ "formats" \in v_branches
    /\ Len(v_streams) = 2
    /\ \A i \in 1..Len(v_streams) : v_streams[i].src = "formats"

AutoStreams ==
    {i \in 1..Len(v_streams) :
        /\ v_streams[i].quality = "auto"
        /\ v_streams[i].width = None
        /\ v_streams[i].height = None}

HasNumericFormatKey ==
    \E i \in 1..Len(v_upMeta.meta.formats.keys) :
        LET k == v_upMeta.meta.formats.keys[i]
        IN  k # <<>> /\ \A c \in 1..Len(k) : k[c] \in Digits

\* C10: a 200 response holds exactly one Rendition labelled "auto" with null
\* width and height when neither the manifest nor stream_formats gave a
\* Rendition, and no such Rendition in every other case.
C10_AutoOnlyAsLastResort ==
    v_status = 200 =>
        IF v_variants = <<>> /\ ~HasNumericFormatKey
        THEN /\ Cardinality(AutoStreams) = 1
             /\ Len(v_streams) = 1
             /\ "last" \in v_branches
        ELSE /\ AutoStreams = {}
             /\ "last" \notin v_branches

\* the manifest was fetched and parsed to nothing, stream_formats has a key
\* that is no number
C10_Witness ==
    /\ v_status = 200
    /\ v_upManifest.kind = "text"
    /\ v_upManifest.header
    /\ v_upMeta.meta.formats.keys # <<>>
    /\ Cardinality(AutoStreams) = 1
    /\ v_streams[1].url.id = v_videoId

\* C34: every 200 response of GET /api/video holds at least one Rendition,
\* whatever the metadata answer and the outcome of the manifest fetch.
C34_StreamsNeverEmpty == v_status = 200 => Len(v_streams) >= 1

\* metadata without a manifest reference and without stream_formats: the
\* response holds the last-resort Rendition alone
C34_Witness ==
    /\ v_status = 200
    /\ v_upMeta.kind = "json"
    /\ v_upMeta.meta.m3u8Url = None
    /\ v_upMeta.meta.formats.shape = "absent"
    /\ Len(v_streams) = 1

\* the manifest was fetched and gave no variant: the fetch rejected, was not
\* ok, its body has no #EXTM3U, or nothing was parsed from it
ManifestGaveNothing ==
    /\ "manifest" \in {v_fetches[i] : i \in 1..Len(v_fetches)}
    /\ \/ v_upManifest.kind \in {"neterr", "nonok"}
       \/ v_upManifest.kind = "text" /\ ~v_upManifest.header
       \/ v_upManifest.kind = "text" /\ v_variants = <<>>

\* C35: after a metadata fetch that succeeded, a manifest fetch that rejects,
\* is not ok, has no #EXTM3U or gives no variant does not make GET /api/video
\* answer an error: the response is 200 and its Renditions are those of
\* stream_formats, or the single "auto" Rendition when there are none.
C35_ManifestFailureAbsorbed ==
    (v_pc = "done" /\ ManifestGaveNothing) =>
        /\ v_status = 200
        /\ v_streams # <<>>
        /\ \A i \in 1..Len(v_streams) : v_streams[i].src \in {"formats", "last"}
        /\ IF HasNumericFormatKey
           THEN \A i \in 1..Len(v_streams) : v_streams[i].src = "formats"
           ELSE Len(v_streams) = 1 /\ v_streams[1].src = "last"
                    /\ v_streams[1].quality = "auto"

\* a rejected manifest fetch, answered with the Renditions of stream_formats
C35_Witness ==
    /\ v_pc = "done"
    /\ v_upManifest.kind = "neterr"
    /\ v_status = 200
    /\ Len(v_streams) = 2
    /\ \A i \in 1..Len(v_streams) : v_streams[i].src = "formats"

\* the quality label and the dimensions of each stream, in order
Dimensions(streams) ==
    [i \in 1..Len(streams) |->
        [quality |-> streams[i].quality, width |-> streams[i].width,
         height |-> streams[i].height]]

-----------------------------------------------------------------------------
(* Properties of parseM3u8Variants *)

InfLines(text) == {i \in 1..Len(text) : text[i].kind = "inf"}

\* the STREAM-INF line i is followed, # lines skipped, by a URL line
HasUriLine(text, i) ==
    \E j \in (i + 1)..Len(text) :
        /\ text[j].kind = "uri"
        /\ \A k \in (i + 1)..(j - 1) : text[k].kind \in {"extm3u", "inf", "comment"}

IsAbsoluteUrl(u) ==
    /\ Len(u) >= 4
    /\ u[1] \in {"http:", "https:"}
    /\ u[2] = "/"
    /\ u[3] = "/"

AbsoluteOrPassedThrough(u) ==
    \/ IsAbsoluteUrl(u)
    \/ /\ u # <<>>
       /\ Head(u) \in HttpPrefixed
       /\ \E j \in 1..Len(p_text) : p_text[j].kind = "uri" /\ p_text[j].uri = u

VariantsPerServedInf(out) ==
    /\ Len(out) = Cardinality({i \in InfLines(p_text) : HasUriLine(p_text, i)})
    /\ Len(out) <= Cardinality(InfLines(p_text))
    /\ \A k \in 1..Len(out) : AbsoluteOrPassedThrough(out[k].url)

C30_ParserCopiesAgree ==
    (IsSome(p_video) /\ IsSome(p_download)) =>
        /\ Len(Val(p_download)) = Len(Val(p_video))
        /\ \A k \in 1..Len(Val(p_video)) :
              /\ Val(p_download)[k].name = Val(p_video)[k].name
              /\ Val(p_download)[k].url = Val(p_video)[k].url
              /\ Val(p_download)[k].height = Val(p_video)[k].height

\* both copies ran on a manifest with two variants: one named after its
\* height with a relative URL, one with a NAME and an absolute URL
C30_Witness ==
    /\ IsSome(p_video)
    /\ IsSome(p_download)
    /\ Len(Val(p_download)) = 2
    /\ Val(p_download)[1].name = "720"
    /\ Val(p_download)[1].url = BaseUrlOf(p_m3u8Url) \o <<"/">> \o RelUri
    /\ Val(p_download)[2].name = "480"
    /\ Val(p_download)[2].url = AbsUri

-----------------------------------------------------------------------------
(* Properties of the /api/download link of a Rendition *)

\* the link of st carries the video identifier in its id parameter
CarriesId(st, videoId) ==
    LET id == SearchParamsGet(DownloadLink(st), "id")
    IN  IF id = None THEN FALSE ELSE LitChars(Val(id)) = videoId

\* st is the Rendition of the variant v, and its link carries the resolved
\* URL of v in u and the name of v in q
CarriesVariant(st, v) ==
    LET u == SearchParamsGet(DownloadLink(st), "u")
        q == SearchParamsGet(DownloadLink(st), "q")
    IN  /\ st.quality = v.name \o "p"
        /\ st.width = v.width
        /\ st.height = v.height
        /\ IF u = None THEN FALSE
           ELSE Len(Val(u)) = 1 /\ DecodeB64Url(Val(u)) = v.url
        /\ IF q = None THEN FALSE ELSE LitText(Val(q)) = v.name

RefVariants == parseM3u8Variants(RefText, BaseUrlOf(CdnManifestUrl))

\* C11 as stated: every Rendition of a 200 response of GET /api/video, and
\* every Rendition built from a manifest, has a link whose id parameter is the
\* video identifier; the link of a Rendition built from a manifest variant has
\* in addition the resolved URL of that variant in u and its name in q.
C11_LinkCarriesIdUrlAndLabel ==
    /\ v_status = 200 =>
         \A i \in 1..Len(v_streams) :
            /\ CarriesId(v_streams[i], Val(v_videoId))
            /\ v_streams[i].src = "manifest" =>
                 \E j \in 1..Len(v_variants) :
                    CarriesVariant(v_streams[i], v_variants[j])
    /\ \A i \in 1..Len(r_streams) :
          /\ CarriesId(r_streams[i], RefVideoId)
          /\ \E j \in 1..Len(RefVariants) : CarriesVariant(r_streams[i], RefVariants[j])

\* C12 as stated: for every manifest and every Rendition the Extractor builds
\* from one of its variants, Strategy A, given the q of that Rendition's link
\* and the same manifest, finds a variant whose name or height equals q: it
\* never goes on with the last variant for want of a match.
C12_StreamerFindsRequestedVariant ==
    (r_pc = "done" /\ r_pick # 0) => r_found # 0

\* the variant URL embedded in the u parameter of the link that was requested
UrlInLink ==
    LET u == SearchParamsGet(r_link, "u")
    IN  IF u = None THEN None
        ELSE IF Len(Val(u)) # 1 THEN None
        ELSE Some(DecodeB64Url(Val(u)))

\* C38 as stated: for every manifest, also one in which several variants
\* have the same name, and every Rendition the Extractor builds from one of
\* its variants, Strategy A with the id and q of that Rendition's link selects
\* in the same manifest the variant whose URL is embedded in the link's u.
C38_StrategyASelectsTheRendition ==
    (r_pc = "done" /\ r_pick # 0) => Some(r_variantUrl) = UrlInLink

-----------------------------------------------------------------------------
(* Properties of GET /api/download *)

\* the fetchOk call `what` was made and returned a response / returned null
CallOk(what) == \E k \in 1..Len(d_calls) : d_calls[k] = [what |-> what, ok |-> TRUE]
CallNull(what) == \E k \in 1..Len(d_calls) : d_calls[k] = [what |-> what, ok |-> FALSE]

Tried(strategy) == \E k \in 1..Len(d_tried) : d_tried[k] = strategy

\* C13: Strategy A, entered when id is supplied, comes before Strategy B;
\* Strategy B is entered only when u was supplied and Strategy A left no
\* segments; and when all attempts of the master-manifest fetch fail, Strategy
\* A leaves no segments and Strategy B is entered if u was supplied (else the
\* request fails).
C13_StrategyAThenB ==
    /\ d_pc # "start" =>
         d_tried = (IF Supplied(d_id) THEN <<"A">> ELSE <<>>)
                   \o (IF Tried("B") THEN <<"B">> ELSE <<>>)
    /\ Tried("B") =>
         /\ Supplied(d_u)
         /\ d_segments # <<>> => CallOk("direct")
    /\ d_pc = "direct" => d_segments = <<>>
    /\ CallNull("master") =>
         /\ ~CallOk("variant")
         /\ d_segments # <<>> => CallOk("direct")
         /\ IF Supplied(d_u) THEN Tried("B") ELSE d_pc = "failed"

C13_Witness ==
    /\ CallNull("master")
    /\ d_tried = <<"A", "B">>
    /\ d_pc = "known"
    /\ d_segments # <<>>

\* the fetchOk calls that have returned, by what they fetched
CallsMade == {d_calls[k].what : k \in 1..Len(d_calls)}

\* C37: a download request with neither id nor u is answered 502 without any
\* outbound fetch; a request with u and without id does not enter Strategy A
\* and fetches only the playlist of Strategy B (and, once it is known, its
\* segments).
C37_StrategiesByParameters ==
    /\ (~Supplied(d_id) /\ ~Supplied(d_u)) =>
         /\ d_pc \in {"start", "failed"}
         /\ d_pc = "failed" => d_status = 502
         /\ d_calls = <<>>
         /\ d_answer = "none"
         /\ d_tried = <<>>
         /\ d_started = <<>>
    /\ (~Supplied(d_id) /\ Supplied(d_u)) =>
         /\ ~Tried("A")
         /\ d_pc \notin {"meta", "master", "variant"}
         /\ CallsMade \subseteq {"direct"}
         /\ d_pc # "start" => d_tried = <<"B">>
         /\ d_meta = NoMeta

\* a request with u alone whose playlist fetch failed three times
C37_Witness ==
    /\ ~Supplied(d_id)
    /\ Supplied(d_u)
    /\ d_tried = <<"B">>
    /\ d_calls = <<[what |-> "direct", ok |-> FALSE]>>
    /\ d_status = 502

\* C14 as stated: once the request is answered, the answer is 502 with the
\* fields error and tip when no strategy yielded a segment, and then no
\* segment was fetched and nothing was emitted; in every other case the answer
\* is the 200 stream.
C14_502ExactlyWithoutSegments ==
    d_status # 0 =>
        IF d_segments = <<>>
        THEN /\ d_status = 502
             /\ d_body = {"error", "tip"}
             /\ d_started = <<>>
             /\ d_out = <<>>
        ELSE d_status = 200

\* The states of the Streamer.  An invocation that an exception ended (500)
\* is in none of them.
Phase ==
    CASE d_pc \in {"start", "meta", "master", "variant", "direct"} -> "Resolving"
      [] d_pc = "known" -> "SegmentsKnown"
      [] d_pc \in {"answer", "read"} -> "Streaming"
      [] d_pc = "done" -> "Done"
      [] d_pc = "failed" -> "Failed"
      [] OTHER -> "None"

StreamerMoves ==
    {<<"Resolving", "SegmentsKnown">>, <<"SegmentsKnown", "Streaming">>,
     <<"Streaming", "Done">>, <<"Resolving", "Failed">>}

ChunksOf(i) == [c \in 1..MaxChunks |-> <<i, c>>]

\* the fetch of segment i rejected, or was answered with a non-success status
\* or without a body
FetchFailed(i) == d_res[i] \in {"neterr", "nonok", "nobody"}

\* the bytes of those of the segments 1..n whose fetch did not fail, in
\* segment order
RECURSIVE BytesOfNotFailed(_)
BytesOfNotFailed(n) ==
    IF n = 0 THEN <<>>
    ELSE BytesOfNotFailed(n - 1) \o (IF FetchFailed(n) THEN <<>> ELSE ChunksOf(n))

\* no body broke off while it was read
NoReadFailure ==
    \A i \in 1..Len(d_res) : d_res[i] \notin {"readerr", "enqerr"}

\* C16: for every segment list and every set of segments whose fetch rejects
\* or is answered with a non-success status, the download is the 200 stream
\* and, once closed, its output is the bytes of the other segments, whole and
\* in segment order.
C16_FailedSegmentsAreSkipped ==
    (d_pc = "done" /\ NoReadFailure) =>
        /\ d_status = 200
        /\ d_closed = 1
        /\ d_out = BytesOfNotFailed(Len(d_segments))

C16_Witness ==
    /\ d_pc = "done"
    /\ Len(d_segments) = 3
    /\ d_res[1] = "done"
    /\ d_res[2] \in {"neterr", "nonok"}
    /\ d_res[3] = "done"

\* how many chunks of segment i the output holds
EmittedOf(i) == Cardinality({k \in 1..Len(d_out) : d_out[k][1] = i})

\* C17 as stated: the closed output holds, of every segment, either all of
\* its bytes or none of them, also when the body of a segment breaks off
\* after some of its chunks were forwarded.
C17_NoPartialSegment ==
    d_pc = "done" =>
        \A i \in 1..Len(d_segments) : EmittedOf(i) \in {0, MaxChunks}

C20_CancelStopsFetching ==
    [][d_cancel # "no" => /\ d_started' = d_started
                          /\ d_read' <= d_read]_vars

\* Strategy A was entered and ended without a segment list
StrategyAFailed ==
    /\ Tried("A")
    /\ d_pc \notin {"meta", "master", "variant"}
    /\ Tried("B") \/ d_segments = <<>>

\* C22 as stated: whenever Strategy A ended without segments, for whatever
\* reason, and u was supplied, Strategy B is attempted; and a request that
\* ends without segments is answered with the 502 StreamFailure, never with
\* an unhandled error or a 500.
C22_StrategyAFailureFallsBack ==
    /\ (StrategyAFailed /\ Supplied(d_u)) => Tried("B")
    /\ (d_status # 0 /\ d_segments = <<>>) => d_status = 502

\* Strategy A returned the segment list the request goes on with
StrategyAGaveSegments == CallOk("variant") /\ d_segments # <<>> /\ ~Tried("B")

\* the title Strategy A returns with its segments
TitleOfStrategyA == ResolvedTitle(d_meta.title)

\* the headers of a 200 response whose filename is made of `title`
DeclaresTsAttachment(title) ==
    /\ d_type = "video/mp2t"
    /\ d_filename = title \o <<" ", QualityParam, "p.ts">>
    /\ d_filename[Len(d_filename)] = "p.ts"

\* C26 as stated: a 200 download response declares Content-Type video/mp2t
\* and the filename "<title> <quality>p.ts" with the requested quality, where
\* title is the decoded t when t was given, else the title Strategy A resolved,
\* else "video".
C26_AttachmentHeaders ==
    d_status = 200 =>
        DeclaresTsAttachment(IF Supplied(d_t) THEN FromB64Url(Val(d_t))
                             ELSE IF StrategyAGaveSegments THEN TitleOfStrategyA
                             ELSE DefaultTitle)

\* the fetchOk calls, and the number of attempts each is given
FetchCalls == {"meta", "master", "variant", "direct"}

AttemptsOf(what) ==
    CASE what = "meta" -> 2 [] what = "master" -> 5 [] what = "variant" -> 3
      [] what = "direct" -> 3

\* the waits after the failed attempts 1..k
WaitsAfter(k) == [j \in 1..k |-> 1000 * j]

\* this step is the return of the fetchOk call in progress
Returns == Len(d_calls') = Len(d_calls) + 1

\* what a step taken while a fetchOk call runs must be
FetchOkStep ==
    d_pc \in FetchCalls =>
        /\ d_answer' = "ok" =>
             /\ Returns
             /\ d_calls'[Len(d_calls')] = [what |-> d_pc, ok |-> TRUE]
        /\ (d_answer' \in FailKinds /\ d_try + 1 < AttemptsOf(d_pc)) =>
             /\ ~Returns
             /\ d_pc' = d_pc
             /\ d_try' = d_try + 1
             /\ d_waits' = WaitsAfter(d_try + 1)
        /\ (d_answer' \in FailKinds /\ d_try + 1 = AttemptsOf(d_pc)) =>
             /\ Returns
             /\ d_calls'[Len(d_calls')] = [what |-> d_pc, ok |-> FALSE]
             /\ d_waits = WaitsAfter(AttemptsOf(d_pc) - 1)
             /\ d_waits' = <<>>
        /\ Returns => d_pc' # d_pc

\* C27: a fetchOk call with n attempts has made fewer than n failed attempts
\* while it runs, and waited 1000*k ms after the k-th of them; an ok answer
\* is returned at once; an answer that is not ok (a rejected fetch or a
\* non-success status) is followed by a wait of 1000*k ms and attempt k+1
\* when k < n, and by the return of null, without a wait, when k = n; n is 2
\* for the metadata, 5 for the master manifest and 3 for a variant playlist.
C27_FetchOkAttemptsAndWaits ==
    /\ [](d_pc \in FetchCalls =>
            /\ d_try < AttemptsOf(d_pc)
            /\ d_waits = WaitsAfter(d_try))
    /\ [][FetchOkStep]_vars

\* the master-manifest fetch has failed four times and is tried a fifth time
C27_Witness ==
    /\ d_pc = "master"
    /\ d_try = 4
    /\ d_waits = <<1000, 2000, 3000, 4000>>
    /\ d_answer \in FailKinds

\* the fetchOk calls of Strategy A that returned, in order
StrategyACalls == SelectSeq(d_calls, LAMBDA c : c.what \in {"meta", "master", "variant"})

StrategyAOrder == <<"meta", "master", "variant">>

\* C28: the fetches of Strategy A are made in the order metadata, master
\* manifest, variant playlist, each only after every earlier one returned a
\* response (and the metadata named a master manifest); once a fetch returned
\* null Strategy A makes no further request and yields no segments.
C28_StrategyAStepsInOrder ==
    /\ Len(StrategyACalls) <= 3
    /\ \A k \in 1..Len(StrategyACalls) :
          /\ StrategyACalls[k].what = StrategyAOrder[k]
          /\ k < Len(StrategyACalls) => StrategyACalls[k].ok
    /\ d_pc \in {"meta", "master", "variant"} =>
          /\ d_pc = StrategyAOrder[Len(StrategyACalls) + 1]
          /\ \A k \in 1..Len(StrategyACalls) : StrategyACalls[k].ok
    /\ (CallOk("master") \/ CallNull("master") \/ d_pc = "master") =>
          IsSome(d_meta.m3u8Url)
    /\ \A what \in {"meta", "master", "variant"} :
          CallNull(what) =>
             /\ d_pc \notin {"meta", "master", "variant"}
             /\ ~StrategyAGaveSegments
             /\ d_segments # <<>> => CallOk("direct")

\* the master manifest could not be fetched: no variant playlist was
\* requested by Strategy A, and Strategy B found the segments
C28_Witness ==
    /\ StrategyACalls = <<[what |-> "meta", ok |-> TRUE], [what |-> "master", ok |-> FALSE]>>
    /\ d_pc = "known"
    /\ CallOk("direct")

-----------------------------------------------------------------------------
(* Properties of the variant selection of Strategy A *)

RefVariantsDl == parseM3u8VariantsDl(RefText, BaseUrlOf(CdnManifestUrl))

\* the name of v is the quality, or v has a height whose decimal text is it
MatchesQuality(v, quality) ==
    \/ v.name = quality
    \/ IsSome(v.height) /\ ToString(Val(v.height)) = quality

\* the variants that match, by position
Matching(variants, quality) ==
    {i \in 1..Len(variants) : MatchesQuality(variants[i], quality)}

\* C29 as stated: Strategy A goes on with the first variant, in manifest
\* order, whose name or whose height in decimal equals the requested quality,
\* and with the last variant of the manifest when there is none.
C29_FirstMatchElseLast ==
    r_pc = "done" =>
        LET hits == Matching(RefVariantsDl, r_quality)
        IN  r_variantUrl =
              IF hits = {} THEN RefVariantsDl[Len(RefVariantsDl)].url
              ELSE RefVariantsDl[CHOOSE i \in hits : \A j \in hits : i <= j].url

-----------------------------------------------------------------------------
(* Termination *)

\* the invocation is over: it answered without a stream, or its stream ended
DlCompleted == d_pc \in {"failed", "crashed", "done", "aborted"}

\* C21 as stated: every download invocation completes in the end (it
\* responds, or closes its stream), also when an upstream fetch hangs.
C21_CompletesThoughUpstreamHangs == <>DlCompleted

-----------------------------------------------------------------------------
(* Properties of two invocations at the same time *)

\* the response of the handler to req when it runs alone and the upstream
\* answers its fetches with up, in this order
AloneResponse(req, up) ==
    IF IsSome(BeforeFirstFetch(req)) THEN Val(BeforeFirstFetch(req))
    ELSE LET ends == {k \in 1..Len(up) : IsSome(After(req, SubSeq(up, 1, k)))}
             k    == CHOOSE k \in ends : \A j \in ends : k <= j
         IN  Val(After(req, SubSeq(up, 1, k)))

-----------------------------------------------------------------------------
(* Properties of the page *)

\* the text submitted last
LastSubmitted(submitted) == submitted[Len(submitted)]

\* the text matches the watch-URL or the short-link pattern
IsUrlText(text) == IsSome(isDailyMotionUrl(Trim(text)))

\* this step is a submission of the form with a text that matches
PastesUrl ==
    /\ Len(g_submitted') = Len(g_submitted) + 1
    /\ IsUrlText(LastSubmitted(g_submitted'))

\* the requests to /api/search among the requests issued
SearchRequests == {k \in 1..Len(g_sent) : g_sent[k].api = "search"}

\* what a submission of a matching text does
UrlStep ==
    PastesUrl =>
        LET dmUrl == Val(isDailyMotionUrl(Trim(LastSubmitted(g_submitted'))))
        IN  /\ g_sent' = Append(g_sent, [api |-> "video", arg |-> dmUrl])
            /\ IsSome(g_selected') /\ Val(g_selected').url = dmUrl
            /\ ~g_loading'
            /\ g_loadingSets' = g_loadingSets
            /\ g_results' = <<>>

\* C25: a submission whose text matches the watch-URL or the short-link
\* pattern issues no /api/search request and leaves the search loading flag
\* alone; it issues exactly one /api/video request, for a single synthetic
\* candidate whose URL is the canonical watch URL of the matched identifier.
\* A visit in which every submitted text matches never asks /api/search.
C25_UrlSkipsSearch ==
    /\ [][UrlStep]_vars
    /\ []((\A k \in 1..Len(g_submitted) : IsUrlText(g_submitted[k]))
            => SearchRequests = {} /\ ~g_loading /\ g_loadingSets = 0)

\* a short link with blanks around it was submitted and only the Extractor
\* was asked, with the canonical URL
C25_Witness ==
    /\ g_submitted = << <<" ", "dai.ly", "/", "y", " ">> >>
    /\ g_sent = <<[api |-> "video", arg |-> WatchUrl(<<"y">>)]>>
    /\ g_loadingVideo
    /\ ~g_loading

\* an extraction for the video that is selected now has not been answered
CurrentInFlight ==
    /\ IsSome(g_selected)
    /\ \E r \in g_pending : r.api = "video" /\ r.arg = Val(g_selected).url

\* C39 as stated: whatever the order of selections, closes and answers of
\* /api/video, the videoInfo on display belongs to the video selected now (a
\* late answer for an earlier selection does not replace the state of a
\* later one), and loadingVideo is false only while no extraction for the
\* video selected now is in flight.
C39_VideoInfoOfCurrentSelection ==
    /\ (IsSome(g_selected) /\ IsSome(g_videoInfo)) =>
          Val(g_videoInfo).of = Val(g_selected).url
    /\ ~g_loadingVideo => ~CurrentInFlight

\* "https://www.dailymotion.com/video/" as atoms
WatchPrefix == WatchUrl(<<>>)

\* the identifier at the end of a canonical watch URL
IdOfCanonical(url) == SubSeq(url, Len(WatchPrefix) + 1, Len(url))

\* C36: for every submitted text in which isDailyMotionUrl finds a watch URL
\* or a short link, in any letter case, the URL it returns is the canonical
\* watch URL of a non-empty alphanumeric identifier, it is the url the page
\* sends to /api/video, and extractVideoId accepts it and returns that
\* identifier, so the request is not answered 400.
C36_PageAndExtractorAgree ==
    \A k \in 1..Len(g_submitted) :
        LET dmUrl == isDailyMotionUrl(Trim(g_submitted[k]))
            url   == Val(dmUrl)
            id    == IdOfCanonical(url)
        IN  IsSome(dmUrl) =>
              /\ url = WatchPrefix \o id
              /\ id # <<>>
              /\ \A c \in 1..Len(id) : id[c] \in Alnum
              /\ \E n \in 1..Len(g_sent) : g_sent[n] = [api |-> "video", arg |-> url]
              /\ ~UrlRejected(Some(url))
              /\ extractVideoId(url) = Some(id)

\* a watch URL in capitals and a short link were submitted
C36_Witness ==
    /\ g_submitted = << <<"DAILYMOTION.COM", "/", "VIDEO", "/", "K">>,
                        <<" ", "dai.ly", "/", "y", " ">> >>
    /\ g_sent = <<[api |-> "video", arg |-> WatchUrl(<<"K">>)],
                  [api |-> "video", arg |-> WatchUrl(<<"y">>)]>>

-----------------------------------------------------------------------------
(* Bounded fetching *)

\* a step taken while a fetchOk call runs is the answer to one attempt: it
\* is counted in d_try, or it ends the call, which is then on record
AttemptStep ==
    d_pc \in FetchCalls =>
        \/ d_pc' = d_pc /\ d_try' = d_try + 1
        \/ /\ d_pc' # d_pc
           /\ Len(d_calls') = Len(d_calls) + 1
           /\ d_calls'[Len(d_calls')].what = d_pc

\* no fetchOk call is made twice in one invocation, and the calls of a
\* strategy are made only when the strategy was entered
EachCallOnce ==
    /\ \A k, l \in 1..Len(d_calls) : d_calls[k].what = d_calls[l].what => k = l
    /\ d_pc \in FetchCalls => d_pc \notin CallsMade
    /\ ~Tried("A") => /\ CallsMade \cap {"meta", "master", "variant"} = {}
                      /\ d_pc \notin {"meta", "master", "variant"}
    /\ ~Tried("B") => "direct" \notin CallsMade /\ d_pc # "direct"

-----------------------------------------------------------------------------
(* The segment list of both strategies *)

\* the lines of a playlist that are neither blank nor comments, in order
UriLinesOf(text) == SelectSeq(text, LAMBDA l : l.kind = "uri")

\* the segment list the playlist text stands for under a variant URL
ExpectedSegments(text, variantUrl) ==
    LET lines == UriLinesOf(text)
    IN  [k \in 1..Len(lines) |->
           IF StartsWithHttp(lines[k].uri) THEN lines[k].uri
           ELSE BaseUrlOf(variantUrl) \o <<"/">> \o lines[k].uri]

====
